---- MODULE Spec2Model ----
(***************************************************************************)
(* A model of the searchine indexing and retrieval engine:                 *)
(*   - the Collection (path -> DocumentId, modified time) and its diff,    *)
(*   - the FrequencyIndex built by folding DocumentFrequencyIndex values,  *)
(*   - the Encoder / Tokenizer,                                            *)
(*   - the three-stage indexing pipeline invoke_par and the search.        *)
(***************************************************************************)
EXTENDS Integers, Sequences, FiniteSets, TLC

VARIABLES
    \* ---- Collection (index/src/collection/col.rs) and the directory ----
    index,          \* Collection.index : path -> [document_id, modified]
    fs,             \* the directory: path -> modified time, 0 when absent
    lastInsert,     \* {path} when the last step was insert(path), else {}
    freed,          \* DocumentIds returned by a successful remove so far
    \* ---- FrequencyIndex (index/src/inverted/freq.rs) ----
    inverted_index,     \* FrequencyInvertedIndex.inner : token -> postings
    doc_terms_counter,  \* DocumentTermsCounter.inner : doc_id -> n_terms
    folded,             \* the DocumentFrequencyIndex values folded so far
    distinctIds,        \* every fold so far carried a DocumentId not seen before
    \* ---- the pipeline invoke_par (searchine/src/cli/index.rs) ----
    readFails,      \* the paths whose read_to_string fails
    pcLoader,       \* loader thread: "load", "send", "ok" (returned Ok), "err"
    pos,            \* loader: position of the current path in the path list
    loaderDoc,      \* loader: the Document it is about to send
    q1,             \* channel loader -> tokenizer (Documents)
    pcTok,          \* tokenizer thread: "recv", "send", "ok"
    vocabulary,     \* the vocabulary of the tokenizer thread's Encoder
    tokItem,        \* tokenizer: the (doc_id, tokens) pair it is about to send
    q2,             \* channel tokenizer -> indexer
    pcIdxr,         \* indexer thread: "recv", "send", "ok"
    idxrItem,       \* indexer: the DocumentFrequencyIndex it is about to send
    q3,             \* channel indexer -> main
    pcMain,         \* main thread: "drain", "join1", "join2", "join3", "check",
                    \*   "write_vocab", "write_index", "ok", "err"
    vocabFile,      \* the persisted vocabulary file
    indexFile,      \* the persisted index file
    emitted,        \* DocumentIds the loader has sent, in order
    tokenized,      \* DocumentIds the tokenizer has tokenized, in order
    built,          \* DocumentIds the indexer has built an index for, in order
    foldOrder,      \* DocumentIds the main thread has folded, in order
    search,         \* the search run after the index run
    \* ---- an Encoder on its own (tokenize/src/lib.rs) ----
    encoder,        \* Encoder.vocabulary : token string -> TokenId
    encCalls,       \* number of Encoder::encode calls so far
    \* ---- one Tokenizer::tokenize call on a new Tokenizer ----
    tokText,        \* the text handed to tokenize
    tokOut,         \* the call's result, once made
    \* ---- create_vocabulary (searchine/src/commands/create_vocabulary.rs) ----
    sharedVocab,    \* the shared Vocabulary: token_to_id
    vocabMutex,     \* the paths whose worker holds the MutexGuard (at most one)
    pcWorker,       \* per path: "idle", "read", "lock", "add", "done"
    workerTokens,   \* per path: the tokens its worker got from tokenize
    \* ---- DocumentsScores (fingertips/src/score/mod.rs) ----
    scores,         \* DocumentsScores.inner : doc_id -> score
    nAddScore,      \* number of add_score calls so far
    topN,           \* the result of the last get_top_n call
    \* ---- calc_idf calls (index/src/score/metrics.rs) ----
    idfBuild,       \* "debug" (overflow checks on) or "release" (wrapping)
    idfN,           \* the n of the calls: the total number of documents
    idfPrev,        \* the calc_idf call before the last one
    idfLast,        \* the last calc_idf call: its d and its result
    \* ---- a FrequencyPostingsList on its own (index/src/postings/freq.rs) ----
    postings,       \* FrequencyPostingsList.inner : a set of postings
    fplCalls,       \* the add and remove calls made so far, in order
    \* ---- the repository: the commands run one after another ----
    collectionFile, \* the persisted Collection file
    indexedPaths,   \* doc_id -> the path whose content the last index run read
    statusReport,   \* what the last status pass displayed
    repoSearch,     \* the outcome of the last search run
    \* ---- the sequential loop invoke (searchine/src/cli/index.rs) ----
    seqPc,          \* "loop", "ok" (files written), "panic"
    seqVocabulary,  \* the vocabulary of the loop's Tokenizer
    seqIndexer,     \* the loop's FrequencyIndexer: the index built so far
    seqVisited,     \* the paths the loop has visited, in order
    seqVocabFile,   \* the vocabulary file the loop writes
    seqIndexFile,   \* the index file the loop writes
    \* ---- merge_postings (src/index/postings.rs) ----
    postings1,      \* the first input, a sequence of postings
    postings2,      \* the second input
    p1,             \* position of the first iterator's current posting
    p2,             \* position of the second iterator's current posting
    merged,         \* the postings pushed so far
    mergePc,        \* "loop", "done"
    \* ---- DocumentBlocks::from_entries (src/fs/blocks.rs) ----
    dirEntries,     \* the entries argument of from_entries
    entries,        \* the entries not yet placed in a block
    max_block_size, \* the max_block_size argument
    blocks,         \* the blocks pushed so far
    blocksPc        \* "loop", "ok", "err"

colVars == <<index, fs, lastInsert, freed>>
idxVars == <<inverted_index, doc_terms_counter, folded, distinctIds>>
loaderVars == <<pcLoader, pos, loaderDoc, emitted>>
tokVars == <<pcTok, vocabulary, tokItem, tokenized>>
idxrVars == <<pcIdxr, idxrItem, built>>
mainVars == <<pcMain, vocabFile, indexFile, foldOrder>>
pipeVars == <<readFails, loaderVars, q1, tokVars, q2, idxrVars, q3, mainVars, search>>
encVars == <<encoder, encCalls>>
tokzVars == <<tokText, tokOut>>
cvVars == <<sharedVocab, vocabMutex, pcWorker, workerTokens>>
scoreVars == <<scores, nAddScore, topN>>
idfVars == <<idfBuild, idfN, idfPrev, idfLast>>
fplVars == <<postings, fplCalls>>
repoVars == <<collectionFile, indexedPaths, statusReport, repoSearch>>
seqVars == <<seqPc, seqVocabulary, seqIndexer, seqVisited, seqVocabFile, seqIndexFile>>
mergeVars == <<postings1, postings2, p1, p2, merged, mergePc>>
blockVars == <<dirEntries, entries, max_block_size, blocks, blocksPc>>
\* The components that are modelled on their own.
extVars == <<idfVars, fplVars, repoVars, seqVars, mergeVars, blockVars>>
auxVars == <<encVars, tokzVars, cvVars, scoreVars, extVars>>
vars == <<colVars, idxVars, pipeVars, auxVars>>
\* What the Collection's operations leave alone, and the index's.
nonColVars == <<idxVars, pipeVars, auxVars>>
nonIdxVars == <<colVars, pipeVars, auxVars>>
\* What each of the later components leaves alone.
coreVars == <<colVars, idxVars, pipeVars, encVars, tokzVars, cvVars, scoreVars>>
\* The repository's commands act on fs, vocabFile and indexFile too.
nonRepoVars ==
    <<index, lastInsert, freed, idxVars, readFails, loaderVars, q1, tokVars, q2,
      idxrVars, q3, pcMain, foldOrder, search, encVars, tokzVars, cvVars, scoreVars,
      idfVars, fplVars, seqVars, mergeVars, blockVars>>
nonIdfVars == <<coreVars, fplVars, repoVars, seqVars, mergeVars, blockVars>>
nonFplVars == <<coreVars, idfVars, repoVars, seqVars, mergeVars, blockVars>>
nonSeqVars == <<coreVars, idfVars, fplVars, repoVars, mergeVars, blockVars>>
nonMergeVars == <<coreVars, idfVars, fplVars, repoVars, seqVars, blockVars>>
nonBlockVars == <<coreVars, idfVars, fplVars, repoVars, seqVars, mergeVars>>

\* ------------------------------------------------------------- bounds
\* Modified times are 1..MaxTime.
MaxTime == 2
\* Number of index() calls in one run of the fold model.
MaxFolds == 3
\* Longest token sequence of one document in the fold model.
MaxDocLen == 2
\* The capacity of each sync_channel of the pipeline (crate::config).
CHANNEL_BOUND == 1

\* Number of Encoder::encode calls in one run of the Encoder model.
MaxEncodes == 4

\* Number of add_score calls in one run of the DocumentsScores model.
MaxAddScore == 4

\* Longest text handed to the one tokenize call of the Tokenizer model.
MaxTextLen == 6

\* Number of bits of a u32 in the calc_idf model.
IntWidth == 3

\* Number of add and remove calls in one run of the postings-list model.
MaxPostingCalls == 4

\* Longest postings list handed to merge_postings.
MaxPostings == 2

\* Number of entries handed to from_entries, and the largest file size.
MaxEntries == 2
MaxFileSize == 2

\* The candidate paths of the directory; their order is the BTreeSet order.
Paths == {1, 2, 3}
Times == 1..MaxTime

\* ------------------------------------------------------------ helpers
EmptyMap == [x \in {} |-> 0]

Range(s) == {s[i] : i \in DOMAIN s}

Min(S) == CHOOSE x \in S : \A y \in S : x <= y

RECURSIVE SortedSeq(_)
\* The elements of a finite set of integers in increasing order.
SortedSeq(S) == IF S = {} THEN <<>> ELSE <<Min(S)>> \o SortedSeq(S \ {Min(S)})

RECURSIVE SumOver(_, _)
\* Sum of f[x] over x in S.
SumOver(f, S) ==
    IF S = {} THEN 0
    ELSE LET x == CHOOSE y \in S : TRUE IN f[x] + SumOver(f, S \ {x})

\* =====================================================================
\* Collection
\* =====================================================================

\* CollectionEntry::new
CollectionEntry(document_id, modified) ==
    [document_id |-> document_id, modified |-> modified]

\* document_path.metadata()?.modified()? : fails when the file is absent.
MetadataOk(dir, path) == dir[path] # 0

\* A plausible slip: insert without the contains_key test.
CollectionInsertAlways(col, dir, path) ==
    IF ~MetadataOk(dir, path) THEN col
    ELSE (path :> CollectionEntry(Cardinality(DOMAIN col), dir[path])) @@ col

\* Collection::insert. The result when the metadata call fails is the
\* unchanged map (the io error is returned to the caller).
CollectionInsert(col, dir, path) ==
    IF path \in DOMAIN col THEN col
    ELSE IF ~MetadataOk(dir, path) THEN col
    ELSE LET modified == dir[path]
             next_id == Cardinality(DOMAIN col)
         IN  (path :> CollectionEntry(next_id, modified)) @@ col

\* Collection::contains_path
ContainsPath(col, path) == path \in DOMAIN col

\* Collection::remove : the map without the path.
CollectionRemove(col, path) == [p \in DOMAIN col \ {path} |-> col[p]]

\* InvertedCollection::from_file collects (document_id, path) pairs into a
\* HashMap in the Collection's hash order: when two paths carry one
\* DocumentId the later pair wins, so every map that sends each stored
\* DocumentId to one of the paths carrying it is a possible outcome.
InvertedCollections(col) ==
    LET ids == {col[p].document_id : p \in DOMAIN col}
    IN  {inv \in [ids -> DOMAIN col] : \A d \in ids : col[inv[d]].document_id = d}

\* iter_full_paths(..).collect::<BTreeSet<_>>() : the live paths in order.
LivePaths(dir) == {p \in Paths : dir[p] # 0}
DirList(dir) == SortedSeq(LivePaths(dir))

\* A plausible slip: >= in place of > in fetch_modified_files.
IsModifiedOrEqual(current_modified, index_modified) ==
    current_modified >= index_modified

\* fetch_modified_files: the comparison current_modified > index_modified.
IsModified(current_modified, index_modified) ==
    current_modified > index_modified

RECURSIVE FetchNewFiles(_, _)
\* fetch_new_files: the entries of dir, in order, the Collection lacks.
FetchNewFiles(col, dirList) ==
    IF dirList = <<>> THEN <<>>
    ELSE LET entry == Head(dirList)
             rest == FetchNewFiles(col, Tail(dirList))
         IN  IF ~ContainsPath(col, entry) THEN <<entry>> \o rest ELSE rest

\* fetch_removed_files: the Collection's paths dir.contains() does not
\* find. The Vec follows the HashMap's iteration order, which no caller
\* relies on; the paths are given as a set.
FetchRemovedFiles(col, dirList) ==
    {index_path \in DOMAIN col : index_path \notin Range(dirList)}

RECURSIVE FetchModifiedFiles(_, _, _)
\* fetch_modified_files: the entries of dir, in order, that the Collection
\* holds with an older modified time than the file has now.
FetchModifiedFiles(col, dir, dirList) ==
    IF dirList = <<>> THEN <<>>
    ELSE LET path == Head(dirList)
             rest == FetchModifiedFiles(col, dir, Tail(dirList))
         IN  IF ContainsPath(col, path)
                  /\ IsModified(dir[path], col[path].modified)
             THEN <<path>> \o rest
             ELSE rest

\* ---- actions of the Collection model ----

\* A call of Collection::insert(path).
Insert(path) ==
    /\ index' = CollectionInsert(index, fs, path)
    /\ lastInsert' = {path}
    /\ UNCHANGED <<fs, freed, nonColVars>>

\* A call of Collection::remove(path).
Remove(path) ==
    /\ index' = CollectionRemove(index, path)
    /\ freed' = IF path \in DOMAIN index
                THEN freed \cup {index[path].document_id}
                ELSE freed
    /\ lastInsert' = {}
    /\ UNCHANGED <<fs, nonColVars>>

\* The directory changes: a file is written (created or modified) with
\* some modified time.
WriteFile(path, t) ==
    /\ fs[path] # t
    /\ fs' = [fs EXCEPT ![path] = t]
    /\ lastInsert' = {}
    /\ UNCHANGED <<index, freed, nonColVars>>

\* The directory changes: a file is deleted.
DeleteFile(path) ==
    /\ fs[path] # 0
    /\ fs' = [fs EXCEPT ![path] = 0]
    /\ lastInsert' = {}
    /\ UNCHANGED <<index, freed, nonColVars>>

ColInit ==
    /\ index = EmptyMap
    /\ fs \in [Paths -> {0} \cup Times]
    /\ lastInsert = {}
    /\ freed = {}

ColNext ==
    \/ \E path \in Paths : Insert(path)
    \/ \E path \in Paths : Remove(path)
    \/ \E path \in Paths, t \in Times : WriteFile(path, t)
    \/ \E path \in Paths : DeleteFile(path)

\* ---------------------------------------------------------------------
\* Properties of the Collection
\* ---------------------------------------------------------------------

\* C2: after any sequence of insert and remove calls no two paths of the
\* Collection carry the same DocumentId, so every inverse map that
\* InvertedCollection can build sends the DocumentId of every path back
\* to that path.
C2_UniqueDocumentIds ==
    /\ \A p, q \in DOMAIN index :
           p # q => index[p].document_id # index[q].document_id
    /\ \A inv \in InvertedCollections(index) :
           \A p \in DOMAIN index : inv[index[p].document_id] = p

\* The set form of the three diff results on the current directory.
NewSet == Range(FetchNewFiles(index, DirList(fs)))
RemovedSet == FetchRemovedFiles(index, DirList(fs))
ModifiedSet == Range(FetchModifiedFiles(index, fs, DirList(fs)))

\* C5: for the Collection and the deduplicated live path list,
\* fetch_new_files gives exactly the live paths the Collection lacks,
\* fetch_removed_files exactly the Collection's paths that are not live,
\* fetch_modified_files exactly the paths in both whose live modified
\* time is strictly greater than the recorded one, each path once, and
\* the three results are pairwise disjoint.
C5_DiffExact ==
    LET dirList == DirList(fs)
        new == FetchNewFiles(index, dirList)
        modified == FetchModifiedFiles(index, fs, dirList)
    IN  /\ Range(new) = LivePaths(fs) \ DOMAIN index
        /\ Len(new) = Cardinality(Range(new))
        /\ RemovedSet = DOMAIN index \ LivePaths(fs)
        /\ Range(modified) =
               {p \in LivePaths(fs) \cap DOMAIN index : fs[p] > index[p].modified}
        /\ Len(modified) = Cardinality(Range(modified))
        /\ \A p \in LivePaths(fs) \cap DOMAIN index :
               fs[p] <= index[p].modified => p \notin Range(modified)
        /\ Range(new) \cap RemovedSet = {}
        /\ Range(new) \cap Range(modified) = {}
        /\ RemovedSet \cap Range(modified) = {}

\* C5 witness: one directory with a new, a removed and a modified path.
C5_Witness ==
    /\ NewSet # {}
    /\ RemovedSet # {}
    /\ ModifiedSet # {}

\* C5 witness of the boundary: a path in both with an equal time and one
\* with an older live time, next to a modified one.
C5_WitnessBoundary ==
    /\ \E p \in LivePaths(fs) \cap DOMAIN index : fs[p] = index[p].modified
    /\ \E p \in LivePaths(fs) \cap DOMAIN index : fs[p] < index[p].modified
    /\ ModifiedSet # {}

\* C6: a DocumentId that a remove has freed is never assigned by a later
\* insert, to the same path or to another.
C6_NoReuseAfterRemove ==
    [][\A p \in Paths :
          (p \notin DOMAIN index /\ p \in DOMAIN index')
              => index'[p].document_id \notin freed]_vars

\* C7: an insert of a path that is already present leaves the Collection
\* unchanged (DocumentId, recorded modified time, every other entry).
C7_InsertIdempotent ==
    [][\A p \in DOMAIN index : lastInsert' = {p} => index' = index]_vars

\* C7 witness: the last step was an insert of a path whose recorded
\* modified time differs from the file's: the path was present before
\* the call, and the file has changed since its first insert.
C7_Witness ==
    \E p \in lastInsert \cap DOMAIN index :
        /\ fs[p] # 0
        /\ fs[p] # index[p].modified


\* =====================================================================
\* DocumentFrequencyIndex and FrequencyIndex
\* =====================================================================

\* The tokens and DocumentIds of the fold model.
FoldTokens == {0, 1}
FoldDocIds == {0, 1, 2}

\* All token sequences of length at most n.
TokenSeqs(n) == UNION {[1..k -> FoldTokens] : k \in 0..n}

\* DocumentFrequencyIndex::new
NewDocumentFrequencyIndex(id) == [id |-> id, n_terms |-> 0, index |-> EmptyMap]

\* A plausible slip: a new token enters the map with the count 0.
AddTokenFromZero(doc_index, token) ==
    [doc_index EXCEPT
        !.n_terms = @ + 1,
        !.index = IF token \in DOMAIN @
                  THEN [@ EXCEPT ![token] = @ + 1]
                  ELSE (token :> 0) @@ @]

\* A plausible slip: n_terms grows only when the token is new.
AddTokenCountsDistinct(doc_index, token) ==
    [doc_index EXCEPT
        !.n_terms = IF token \in DOMAIN doc_index.index THEN @ ELSE @ + 1,
        !.index = IF token \in DOMAIN @
                  THEN [@ EXCEPT ![token] = @ + 1]
                  ELSE (token :> 1) @@ @]

\* DocumentFrequencyIndex::add_token
AddToken(doc_index, token) ==
    [doc_index EXCEPT
        !.n_terms = @ + 1,
        !.index = IF token \in DOMAIN @
                  THEN [@ EXCEPT ![token] = @ + 1]
                  ELSE (token :> 1) @@ @]

RECURSIVE IndexTokens(_, _)
\* DocumentFrequencyIndex::index_tokens
IndexTokens(doc_index, tokens) ==
    IF tokens = <<>> THEN doc_index
    ELSE IndexTokens(AddToken(doc_index, Head(tokens)), Tail(tokens))

\* A plausible slip: the posting records presence, not the count.
FrequencyPostingOne(doc_id, frequency) == [doc_id |-> doc_id, frequency |-> 1]

\* FrequencyPosting::new
FrequencyPosting(doc_id, frequency) == [doc_id |-> doc_id, frequency |-> frequency]

\* A plausible slip: add replaces the posting of the same document
\* (HashSet::replace, or a map insert).
PostingsListAddReplace(postings_list, posting) ==
    {q \in postings_list : q.doc_id # posting.doc_id} \cup {posting}

\* FrequencyPostingsList::add : HashSet::insert of a posting whose
\* equality and hash are its doc_id alone. An equal element that is
\* already in the set stays, and the new posting is dropped.
PostingsListAdd(postings_list, posting) ==
    IF \E q \in postings_list : q.doc_id = posting.doc_id
    THEN postings_list
    ELSE postings_list \cup {posting}

\* FrequencyPostingsList::get
PostingsListGet(postings_list, doc_id) ==
    {q \in postings_list : q.doc_id = doc_id}

\* FrequencyPostingsList::remove : retain the postings of other documents.
PostingsListRemove(postings_list, doc_id) ==
    {posting \in postings_list : posting.doc_id # doc_id}

\* FrequencyPostingsList::len
PostingsListLen(postings_list) == Cardinality(postings_list)

\* FrequencyPostingsList::doc_ids
PostingsListDocIds(postings_list) == {q.doc_id : q \in postings_list}

\* A plausible slip: the branch for a known token builds a new list too,
\* so the token's earlier postings are lost.
InsertPostingFresh(inner, token, posting) ==
    (token :> PostingsListAdd({}, posting)) @@ inner

\* The body of the loop of FrequencyInvertedIndex::index for one
\* (token, token_freq) pair.
InsertPosting(inner, token, posting) ==
    IF token \in DOMAIN inner
    THEN [inner EXCEPT ![token] = PostingsListAdd(@, posting)]
    ELSE (token :> PostingsListAdd({}, posting)) @@ inner

RECURSIVE InvertedIndexFold(_, _, _)
\* The loop of FrequencyInvertedIndex::index over the tokens left.
InvertedIndexFold(inner, doc_index, tokensLeft) ==
    IF tokensLeft = {} THEN inner
    ELSE LET token == CHOOSE t \in tokensLeft : TRUE
             posting == FrequencyPosting(doc_index.id, doc_index.index[token])
         IN  InvertedIndexFold(InsertPosting(inner, token, posting),
                               doc_index, tokensLeft \ {token})

\* FrequencyInvertedIndex::index
InvertedIndexIndex(inner, doc_index) ==
    InvertedIndexFold(inner, doc_index, DOMAIN doc_index.index)

\* A plausible slip: the table is rebuilt around the new entry.
InsertDocTermsFresh(counter, doc_id, n_terms) == (doc_id :> n_terms)

\* insert_doc_terms : HashMap::insert, which replaces an earlier value.
InsertDocTerms(counter, doc_id, n_terms) == (doc_id :> n_terms) @@ counter

\* FrequencyIndex::index, on the pair of its two fields.
FrequencyIndexIndex(fi, doc_index) ==
    [doc_terms_counter |->
         InsertDocTerms(fi.doc_terms_counter, doc_index.id, doc_index.n_terms),
     inverted_index |-> InvertedIndexIndex(fi.inverted_index, doc_index)]

\* FrequencyIndex::new
NewFrequencyIndex == [doc_terms_counter |-> EmptyMap, inverted_index |-> EmptyMap]

\* ---- the query surface (impl Index for FrequencyIndex) ----
NDocs(fi) == Cardinality(DOMAIN fi.doc_terms_counter)
DocIdsContaining(fi, term) ==
    IF term \in DOMAIN fi.inverted_index
    THEN PostingsListDocIds(fi.inverted_index[term])
    ELSE {}
NDocsContaining(fi, term) ==
    IF term \in DOMAIN fi.inverted_index
    THEN Cardinality(fi.inverted_index[term])
    ELSE 0
NTerms(fi, doc_id) ==
    IF doc_id \in DOMAIN fi.doc_terms_counter
    THEN fi.doc_terms_counter[doc_id]
    ELSE 0
\* term_frequency: both unwrap calls succeed only for a pair the index
\* holds; it is used on such pairs only.
TermFrequency(fi, doc_id, term) ==
    (CHOOSE q \in PostingsListGet(fi.inverted_index[term], doc_id) : TRUE).frequency

\* The FrequencyIndex of the fold model.
CurrentIndex ==
    [doc_terms_counter |-> doc_terms_counter, inverted_index |-> inverted_index]

\* ---- action of the fold model ----

\* A call of FrequencyIndex::index with the DocumentFrequencyIndex built
\* by index_tokens from some token sequence of document doc_id.
Index(doc_id, tokens) ==
    LET doc_index == IndexTokens(NewDocumentFrequencyIndex(doc_id), tokens)
        fi == FrequencyIndexIndex(CurrentIndex, doc_index)
    IN  /\ Cardinality(folded) < MaxFolds
        /\ inverted_index' = fi.inverted_index
        /\ doc_terms_counter' = fi.doc_terms_counter
        /\ folded' = folded \cup {doc_index}
        /\ distinctIds' = (distinctIds /\ doc_id \notin DOMAIN doc_terms_counter)
        /\ UNCHANGED nonIdxVars

IdxInit ==
    /\ inverted_index = EmptyMap
    /\ doc_terms_counter = EmptyMap
    /\ folded = {}
    /\ distinctIds = TRUE

IdxNext == \E doc_id \in FoldDocIds, tokens \in TokenSeqs(MaxDocLen) : Index(doc_id, tokens)

\* ---------------------------------------------------------------------
\* Properties of the FrequencyIndex
\* ---------------------------------------------------------------------

\* The sum of term_frequency(d, t) over the tokens whose postings list
\* holds d.
SumOfFrequencies(fi, d) ==
    LET toks == {t \in DOMAIN fi.inverted_index : d \in DocIdsContaining(fi, t)}
        tf == [t \in toks |-> TermFrequency(fi, d, t)]
    IN  SumOver(tf, toks)

\* C1: after any sequence of index calls, also one that folds a
\* DocumentId again with other counts, n_terms(d) of every indexed
\* document d is the sum of term_frequency(d, t) over the tokens t whose
\* postings list holds d.
C1_TermsAreSumOfFrequencies ==
    \A d \in DOMAIN doc_terms_counter :
        NTerms(CurrentIndex, d) = SumOfFrequencies(CurrentIndex, d)

RECURSIVE FoldSeq(_, _)
\* index() called on each element of a sequence in turn.
FoldSeq(fi, docs) ==
    IF docs = <<>> THEN fi
    ELSE FoldSeq(FrequencyIndexIndex(fi, Head(docs)), Tail(docs))

\* The orders in which a set of values can be folded.
Orders(S) ==
    {s \in [1..Cardinality(S) -> S] : \A i, j \in DOMAIN s : i # j => s[i] # s[j]}

\* C4: DocumentFrequencyIndex values with pairwise distinct DocumentIds,
\* folded into an empty FrequencyIndex in any order, give the postings
\* map and the total-terms table the run's own order gave.
C4_FoldOrderIndependent ==
    distinctIds => \A order \in Orders(folded) : FoldSeq(NewFrequencyIndex, order) = CurrentIndex

\* C4 witness: several documents with distinct DocumentIds are folded and
\* two of them share a token.
C4_Witness ==
    /\ distinctIds
    /\ Cardinality(folded) >= 2
    /\ \E t \in DOMAIN inverted_index : NDocsContaining(CurrentIndex, t) >= 2

\* The number of places of a token sequence that hold t.
Occurrences(tokens, t) == Cardinality({i \in DOMAIN tokens : tokens[i] = t})

\* The token sequences from which index_tokens builds doc_index.
TokenSeqsOf(doc_index) ==
    {tokens \in TokenSeqs(MaxDocLen) :
        IndexTokens(NewDocumentFrequencyIndex(doc_index.id), tokens) = doc_index}

\* C13: after per-document indexes with pairwise distinct DocumentIds
\* are folded into an empty index, n_docs() is the number of documents
\* folded, n_docs_containing(t) the number of them whose token sequence
\* holds t, n_terms(d) the length of d's token sequence and
\* term_frequency(d, t) the number of occurrences of t in it (for the
\* tokens that occur in d: term_frequency is not called on other pairs).
C13_IndexStatistics ==
    distinctIds =>
        /\ NDocs(CurrentIndex) = Cardinality(folded)
        /\ \A t \in FoldTokens :
               NDocsContaining(CurrentIndex, t) =
                   Cardinality({di \in folded :
                                   \E tokens \in TokenSeqsOf(di) : t \in Range(tokens)})
        /\ \A di \in folded : \A tokens \in TokenSeqsOf(di) :
               /\ NTerms(CurrentIndex, di.id) = Len(tokens)
               /\ \A t \in Range(tokens) :
                      TermFrequency(CurrentIndex, di.id, t) = Occurrences(tokens, t)

\* C13 witness: distinct DocumentIds, a token two documents share, a
\* document that holds a token twice and a document without any token.
C13_Witness ==
    /\ distinctIds
    /\ \E t \in DOMAIN inverted_index : NDocsContaining(CurrentIndex, t) = 2
    /\ \E di \in folded : \E t \in DOMAIN di.index : di.index[t] = 2
    /\ \E di \in folded : di.n_terms = 0

\* C14: in every index state that index calls reach (a DocumentId folded
\* again included), for every token t and every DocumentId d that
\* doc_ids_containing(t) returns, both lookups of term_frequency(d, t)
\* succeed (the token has a postings list, the list has one posting of
\* d) and the frequency is at least 1.
C14_TermFrequencyDefined ==
    \A t \in FoldTokens : \A d \in DocIdsContaining(CurrentIndex, t) :
        /\ t \in DOMAIN inverted_index
        /\ Cardinality(PostingsListGet(inverted_index[t], d)) = 1
        /\ TermFrequency(CurrentIndex, d, t) >= 1

\* C14 witness: a DocumentId was folded twice and some token has
\* postings of two documents.
C14_Witness ==
    /\ ~distinctIds
    /\ \E t \in DOMAIN inverted_index : NDocsContaining(CurrentIndex, t) >= 2

\* C19: the total term count of every DocumentFrequencyIndex that
\* add_token / index_tokens calls build is the sum of its per-token
\* counts, and every stored count is at least 1.
C19_DocTermsAreSumOfCounts ==
    \A di \in folded :
        /\ di.n_terms = SumOver(di.index, DOMAIN di.index)
        /\ \A t \in DOMAIN di.index : di.index[t] >= 1

\* C19 witness: one document index with a token counted twice and one
\* with two tokens.
C19_Witness ==
    /\ \E di \in folded : \E t \in DOMAIN di.index : di.index[t] = 2
    /\ \E di \in folded : Cardinality(DOMAIN di.index) = 2

\* C20: after any sequence of index calls, n_docs_containing(t) is at
\* most n_docs() for every token t, indexed or not.
C20_DocsContainingAtMostDocs ==
    \A t \in FoldTokens : NDocsContaining(CurrentIndex, t) <= NDocs(CurrentIndex)

\* C20 witness: one token is in every document of an index of at least
\* two documents and another token is in fewer.
C20_Witness ==
    /\ NDocs(CurrentIndex) >= 2
    /\ \E t \in FoldTokens : NDocsContaining(CurrentIndex, t) = NDocs(CurrentIndex)
    /\ \E t \in FoldTokens : NDocsContaining(CurrentIndex, t) < NDocs(CurrentIndex)

\* =====================================================================
\* Tokenizer and Encoder (tokenize/src/lib.rs)
\* =====================================================================

\* A text is a sequence of characters. The characters of the model:
LowerLetters == {"a", "c", "d", "g", "n", "o", "r", "s", "t", "u"}
UpperLetters == {"A", "C", "T"}
Digits == {"2"}
Vowels == {"a", "o", "u"}

\* char::is_alphanumeric
IsAlphanumeric(c) == c \in LowerLetters \cup UpperLetters \cup Digits

\* The lowercase form of one character (str::to_lowercase).
LowerChar(c) ==
    CASE c = "A" -> "a"
      [] c = "C" -> "c"
      [] c = "T" -> "t"
      [] OTHER -> c

\* str::to_lowercase
ToLowercase(word) == [i \in DOMAIN word |-> LowerChar(word[i])]

RECURSIVE SplitText(_, _)
\* text.split(|c| !c.is_alphanumeric()) : the fragments between the
\* separators, empty ones included; cur is the fragment being read.
SplitText(text, cur) ==
    IF text = <<>> THEN <<cur>>
    ELSE IF IsAlphanumeric(Head(text))
         THEN SplitText(Tail(text), Append(cur, Head(text)))
         ELSE <<cur>> \o SplitText(Tail(text), <<>>)

\* A plausible slip: the fragments are not lowercased.
SeparateTextKeepCase(text) ==
    SelectSeq(SplitText(text, <<>>), LAMBDA frag : frag # <<>>)

\* PreTokenizer::separate_text
SeparateText(text) ==
    LET frags == SelectSeq(SplitText(text, <<>>), LAMBDA frag : frag # <<>>)
    IN  [i \in DOMAIN frags |-> ToLowercase(frags[i])]

\* Stemmer::stem of the English Snowball stemmer, as far as the words of
\* the model go: a final "s" that follows neither "s" nor "u" is removed
\* when the part before the letter preceding it holds a vowel (step 1a);
\* no other rule applies to these words.
Stem(word) ==
    LET n == Len(word)
    IN  IF /\ n >= 3
           /\ word[n] = "s"
           /\ word[n - 1] \notin {"s", "u"}
           /\ \E i \in 1..(n - 2) : word[i] \in Vowels
        THEN SubSeq(word, 1, n - 1)
        ELSE word

\* A plausible slip: every token gets the next id, known or not.
EncodeNoLookup(vocab, token) ==
    LET term_id == Cardinality(DOMAIN vocab)
    IN  [id |-> term_id, vocabulary |-> (token :> term_id) @@ vocab]

\* Encoder::encode : the id of the token, which the call adds with the
\* id vocabulary.len() when the vocabulary lacks it.
Encode(vocab, token) ==
    LET term_id == Cardinality(DOMAIN vocab)
    IN  IF token \in DOMAIN vocab
        THEN [id |-> vocab[token], vocabulary |-> vocab]
        ELSE [id |-> term_id, vocabulary |-> (token :> term_id) @@ vocab]

RECURSIVE EncodeAll(_, _, _)
\* The map(...) of Tokenizer::tokenize over the terms left; out holds the
\* ids so far. (The singleton sets bind each intermediate value once.)
EncodeAll(vocab, terms, out) ==
    IF terms = <<>> THEN [tokens |-> out, vocabulary |-> vocab]
    ELSE CHOOSE r \in {EncodeAll(e.vocabulary, Tail(terms), Append(out, e.id)) :
                          e \in {Encode(vocab, Stem(Head(terms)))}} : TRUE

\* Tokenizer::tokenize on a Tokenizer whose Encoder holds vocab: the
\* token ids and the Encoder's vocabulary after the call.
Tokenize(vocab, text) ==
    CHOOSE r \in {EncodeAll(vocab, terms, <<>>) : terms \in {SeparateText(text)}} : TRUE

\* Tokenizer::default() : the Encoder of a new Tokenizer is empty.
DefaultTokenizerVocabulary == EmptyMap

\* The stems of a text, in order.
Stems(text) == LET terms == SeparateText(text) IN [i \in DOMAIN terms |-> Stem(terms[i])]

\* Query::from : token -> number of occurrences.
QueryFrom(tokens) ==
    [t \in Range(tokens) |-> Cardinality({i \in DOMAIN tokens : tokens[i] = t})]

\* The documents of the directory: the text read from each path.
Content(path) ==
    CASE path = 1 -> <<"C", "a", "t", "s", " ", "r", "u", "n", ".">>
      [] path = 2 -> <<"a", " ", "c", "a", "t", ",", " ", "a", " ", "C", "A", "T">>
      [] OTHER    -> <<"r", "u", "n", " ", "2", " ", "r", "u", "n", "s">>

\* The query texts of the model.
QueryTexts ==
    { <<"r", "u", "n">>,
      <<"d", "o", "g", " ", "c", "a", "t", "s">>,
      <<"a", " ", "A", " ", "2">>,
      <<"d", "o", "g", ".">> }

\* ---- an Encoder on its own ----

\* The token strings handed to the Encoder (those of test_encoding_decoding).
EncTokens == {"i", "want", "it", "got"}

\* Encoder::default()
EncInit ==
    /\ encoder = EmptyMap
    /\ encCalls = 0

\* A call of Encoder::encode(token).
EncoderEncode(token) ==
    /\ encCalls < MaxEncodes
    /\ encoder' = Encode(encoder, token).vocabulary
    /\ encCalls' = encCalls + 1
    /\ UNCHANGED <<extVars, colVars, idxVars, pipeVars, tokzVars, cvVars, scoreVars>>

EncNext == \E token \in EncTokens : EncoderEncode(token)

\* C11: after any sequence of encode calls on an Encoder that started
\* empty, distinct strings have distinct TokenIds and the TokenIds in use
\* are exactly 0 .. size-1, size being the number of strings held.
C11_EncoderBijective ==
    /\ \A s, t \in DOMAIN encoder : s # t => encoder[s] # encoder[t]
    /\ {encoder[s] : s \in DOMAIN encoder} = 0..(Cardinality(DOMAIN encoder) - 1)

\* C11 witness: three strings are held and some call encoded a string
\* that was already held.
C11_Witness ==
    /\ Cardinality(DOMAIN encoder) = 3
    /\ encCalls > Cardinality(DOMAIN encoder)

\* ---- one tokenize call on a new Tokenizer ----

\* The characters of the texts: letters in both cases and a separator.
TextChars == {"a", "t", "s", "A", " "}

\* All texts of at most n characters.
Texts(n) == UNION {[1..k -> TextChars] : k \in 0..n}

NoTokens == [done |-> FALSE, tokens |-> <<>>]

\* Some text, and a Tokenizer that has not been used.
TokzInit ==
    /\ tokText \in Texts(MaxTextLen)
    /\ tokOut = NoTokens

\* Tokenizer::default().tokenize(text)
TokenizeCall ==
    /\ ~tokOut.done
    /\ tokOut' = [done |-> TRUE,
                  tokens |-> Tokenize(DefaultTokenizerVocabulary, tokText).tokens]
    /\ UNCHANGED <<extVars, tokText, colVars, idxVars, pipeVars, encVars, cvVars, scoreVars>>

TokzNext == TokenizeCall

\* The maximal alphanumeric fragments of a text that are not empty, each
\* as the pair of its first and last position.
Fragments(text) ==
    {f \in (DOMAIN text) \X (DOMAIN text) :
        /\ f[1] <= f[2]
        /\ \A k \in f[1]..f[2] : IsAlphanumeric(text[k])
        /\ f[1] = 1 \/ ~IsAlphanumeric(text[f[1] - 1])
        /\ f[2] = Len(text) \/ ~IsAlphanumeric(text[f[2] + 1])}

\* The k-th fragment in text order, and its lowercased stem.
NthFragment(text, k) ==
    CHOOSE f \in Fragments(text) :
        Cardinality({g \in Fragments(text) : g[1] < f[1]}) = k - 1
FragmentStem(text, k) ==
    LET f == NthFragment(text, k) IN Stem(ToLowercase(SubSeq(text, f[1], f[2])))

\* C18: tokenize on a new Tokenizer returns one token for every
\* non-empty maximal alphanumeric fragment of the text, in text order
\* and with repetitions kept; two fragments get the same TokenId exactly
\* when their lowercased stems are equal, and the TokenIds are 0, 1, 2,
\* ... in the order in which the stems first occur.
C18_TokenizeFragments ==
    tokOut.done =>
        LET n == Cardinality(Fragments(tokText))
            tokens == tokOut.tokens
        IN  /\ Len(tokens) = n
            /\ \A i, j \in 1..n :
                   (tokens[i] = tokens[j]) <=>
                       (FragmentStem(tokText, i) = FragmentStem(tokText, j))
            /\ \A k \in 1..n :
                   (\A j \in 1..(k - 1) : FragmentStem(tokText, j) # FragmentStem(tokText, k))
                       => tokens[k] =
                              Cardinality({FragmentStem(tokText, j) : j \in 1..(k - 1)})

\* The k-th fragment as it stands in the text.
FragmentText(text, k) ==
    LET f == NthFragment(text, k) IN SubSeq(text, f[1], f[2])

\* C18 witness: two fragments that differ as lowercase words and get the
\* same TokenId because the stemmer removed the final s of one of them.
C18_Witness ==
    /\ tokOut.done
    /\ tokOut.tokens = <<0, 0>>
    /\ ToLowercase(FragmentText(tokText, 1)) # ToLowercase(FragmentText(tokText, 2))

\* C18 witness: a word repeated in another case behind a different word.
C18_WitnessRepeated ==
    /\ tokOut.done
    /\ tokOut.tokens = <<0, 1, 0>>
    /\ FragmentText(tokText, 1) # FragmentText(tokText, 3)

\* ---- create_vocabulary (searchine/src/commands/create_vocabulary.rs) ----

\* Tokenizer<NoEncoder>::tokenize : the stems of the separated terms.
TokenizeNoEncoder(text) ==
    LET terms == SeparateText(text) IN [i \in DOMAIN terms |-> Stem(terms[i])]

\* Vocabulary::add_token
VocabularyAddToken(token_to_id, token) ==
    IF token \in DOMAIN token_to_id THEN token_to_id
    ELSE LET id == Cardinality(DOMAIN token_to_id)
         IN  (token :> id) @@ token_to_id

RECURSIVE VocabularyAddTokens(_, _)
\* Vocabulary::add_tokens
VocabularyAddTokens(token_to_id, tokens) ==
    IF tokens = <<>> THEN token_to_id
    ELSE VocabularyAddTokens(VocabularyAddToken(token_to_id, Head(tokens)), Tail(tokens))

\* The closure of dir.par_iter().for_each for one path, in three steps:
\* read and tokenize the file, take the mutex, add the tokens. The guard
\* is dropped when the closure ends.
WorkerRead(path) ==
    /\ pcWorker[path] = "read"
    /\ workerTokens' = [workerTokens EXCEPT ![path] = TokenizeNoEncoder(Content(path))]
    /\ pcWorker' = [pcWorker EXCEPT ![path] = "lock"]
    /\ UNCHANGED <<extVars, sharedVocab, vocabMutex, colVars, idxVars, pipeVars, encVars, tokzVars,
                   scoreVars>>

WorkerLock(path) ==
    /\ pcWorker[path] = "lock"
    /\ vocabMutex = {}
    /\ vocabMutex' = {path}
    /\ pcWorker' = [pcWorker EXCEPT ![path] = "add"]
    /\ UNCHANGED <<extVars, sharedVocab, workerTokens, colVars, idxVars, pipeVars, encVars, tokzVars,
                   scoreVars>>

WorkerAdd(path) ==
    /\ pcWorker[path] = "add"
    /\ sharedVocab' = VocabularyAddTokens(sharedVocab, workerTokens[path])
    /\ vocabMutex' = {}
    /\ pcWorker' = [pcWorker EXCEPT ![path] = "done"]
    /\ UNCHANGED <<extVars, workerTokens, colVars, idxVars, pipeVars, encVars, tokzVars, scoreVars>>

\* for_each has returned: every closure has ended.
WorkersDone == \A p \in Paths : pcWorker[p] \in {"idle", "done"}

\* Arc::try_unwrap(vocab)...into_inner() and the write of the vocabulary.
WriteVocabulary ==
    /\ WorkersDone
    /\ ~vocabFile.written
    /\ vocabFile' = [written |-> TRUE, vocabulary |-> sharedVocab]
    /\ UNCHANGED <<extVars, cvVars, colVars, idxVars, readFails, loaderVars, q1, tokVars, q2,
                   idxrVars, q3, pcMain, indexFile, foldOrder, search, encVars, tokzVars,
                   scoreVars>>

\* invoke up to the par_iter: some directory, one closure per live path.
CvInit ==
    /\ fs \in [Paths -> {0, 1}]
    /\ index = EmptyMap
    /\ lastInsert = {}
    /\ freed = {}
    /\ sharedVocab = EmptyMap
    /\ vocabMutex = {}
    /\ pcWorker = [p \in Paths |-> IF fs[p] # 0 THEN "read" ELSE "idle"]
    /\ workerTokens = [p \in Paths |-> <<>>]

CvNext ==
    \/ \E path \in Paths : WorkerRead(path)
    \/ \E path \in Paths : WorkerLock(path)
    \/ \E path \in Paths : WorkerAdd(path)
    \/ WriteVocabulary

RECURSIVE VocabularyOfPaths(_, _)
\* The Vocabulary one worker builds when it handles the paths of a list
\* one after the other.
VocabularyOfPaths(token_to_id, list) ==
    IF list = <<>> THEN token_to_id
    ELSE VocabularyOfPaths(
             VocabularyAddTokens(token_to_id, TokenizeNoEncoder(Content(Head(list)))),
             Tail(list))

\* C12: for a fixed set of documents the Vocabulary that create_vocabulary
\* writes gives every token the same id in every interleaving of its
\* workers: the ids of a run that handles the paths in their sorted order.
C12_VocabularyDeterministic ==
    vocabFile.written => vocabFile.vocabulary = VocabularyOfPaths(EmptyMap, DirList(fs))

\* ---- DocumentsScores on its own (fingertips/src/score/mod.rs) ----

\* The DocumentIds and the scores handed to add_score. The scoring
\* functions give finite scores that are not negative.
ScoreDocIds == {0, 1, 2}
ScoreValues == {0, 1, 2}
\* The values of top_n: fewer than, as many as and more than the entries.
TopNs == 0..(Cardinality(ScoreDocIds) + 1)

\* A plausible slip: a score of zero makes no entry.
AddScoreSkipZero(inner, doc_id, score) ==
    IF score = 0 THEN inner
    ELSE IF doc_id \in DOMAIN inner
         THEN [inner EXCEPT ![doc_id] = @ + score]
         ELSE (doc_id :> score) @@ inner

\* DocumentsScores::add_score : *entry(doc_id).or_insert(0.0) += score
AddScore(inner, doc_id, score) ==
    IF doc_id \in DOMAIN inner
    THEN [inner EXCEPT ![doc_id] = @ + score]
    ELSE (doc_id :> 0 + score) @@ inner

\* One (doc_id, score) pair of the table.
ScoreElement(doc_id, score) == [doc_id |-> doc_id, score |-> score]

\* A plausible slip: the comparison without .reverse(), ascending.
InsertByScoreAscending(sorted, e) ==
    LET k == Cardinality({i \in DOMAIN sorted : sorted[i].score <= e.score})
    IN  SubSeq(sorted, 1, k) \o <<e>> \o SubSeq(sorted, k + 1, Len(sorted))

\* One step of the stable sort_by with the reversed partial_cmp: e goes
\* behind the elements whose score is greater than or equal to its own.
InsertByScore(sorted, e) ==
    LET k == Cardinality({i \in DOMAIN sorted : sorted[i].score >= e.score})
    IN  SubSeq(sorted, 1, k) \o <<e>> \o SubSeq(sorted, k + 1, Len(sorted))

RECURSIVE SortByScore(_, _)
\* elements.sort_by(|a, b| a.1.partial_cmp(&b.1).unwrap().reverse())
SortByScore(sorted, elements) ==
    IF elements = <<>> THEN sorted
    ELSE SortByScore(InsertByScore(sorted, Head(elements)), Tail(elements))

\* into_iter().take(top_n)
Take(elements, top_n) ==
    SubSeq(elements, 1, IF top_n < Len(elements) THEN top_n ELSE Len(elements))

\* DocumentsScores::get_top_n on the table, its entries being iterated
\* in the order iter_order (the HashMap's iteration order).
GetTopNOf(inner, iter_order, top_n) ==
    LET elements == [i \in DOMAIN iter_order |->
                        ScoreElement(iter_order[i], inner[iter_order[i]])]
    IN  Take(SortByScore(<<>>, elements), top_n)

NoTopN == [done |-> FALSE, top_n |-> 0, elements |-> <<>>]

\* DocumentsScores::new
ScoreInit ==
    /\ scores = EmptyMap
    /\ nAddScore = 0
    /\ topN = NoTopN

\* A call of add_score(doc_id, score); an earlier result of get_top_n
\* borrows the table and is gone by then.
AddScoreCall(doc_id, score) ==
    /\ nAddScore < MaxAddScore
    /\ scores' = AddScore(scores, doc_id, score)
    /\ nAddScore' = nAddScore + 1
    /\ topN' = NoTopN
    /\ UNCHANGED <<extVars, colVars, idxVars, pipeVars, encVars, tokzVars, cvVars>>

\* A call of get_top_n(top_n), for some iteration order of the HashMap.
GetTopN(top_n) ==
    /\ \E iter_order \in Orders(DOMAIN scores) :
           topN' = [done |-> TRUE, top_n |-> top_n,
                    elements |-> GetTopNOf(scores, iter_order, top_n)]
    /\ UNCHANGED <<extVars, scores, nAddScore, colVars, idxVars, pipeVars, encVars, tokzVars,
                   cvVars>>

ScoreNext ==
    \/ \E doc_id \in ScoreDocIds, score \in ScoreValues : AddScoreCall(doc_id, score)
    \/ \E top_n \in TopNs : GetTopN(top_n)

\* C16: get_top_n(n) returns min(n, number of scored documents)
\* entries, each a distinct scored document with the score the table
\* holds for it, in non-increasing score order, and no document left out
\* has a score strictly greater than the score of a returned one.
C16_TopN ==
    topN.done =>
        LET r == topN.elements
            n == topN.top_n
            size == Cardinality(DOMAIN scores)
            returned == {r[i].doc_id : i \in DOMAIN r}
        IN  /\ Len(r) = IF n < size THEN n ELSE size
            /\ \A i \in DOMAIN r :
                   r[i].doc_id \in DOMAIN scores /\ r[i].score = scores[r[i].doc_id]
            /\ \A i, j \in DOMAIN r : i # j => r[i].doc_id # r[j].doc_id
            /\ \A i, j \in DOMAIN r : i < j => r[i].score >= r[j].score
            /\ \A d \in DOMAIN scores \ returned :
                   \A i \in DOMAIN r : scores[d] <= r[i].score

\* C16 witness: two of three scored documents are returned, their scores
\* differ, and the document left out ties with the last one returned;
\* one score was added up from two calls.
C16_Witness ==
    /\ topN.done
    /\ topN.top_n = 2
    /\ Cardinality(DOMAIN scores) = 3
    /\ nAddScore > Cardinality(DOMAIN scores)
    /\ topN.elements[1].score > topN.elements[2].score
    /\ \E d \in DOMAIN scores :
           /\ \A i \in DOMAIN topN.elements : topN.elements[i].doc_id # d
           /\ scores[d] = topN.elements[2].score

\* =====================================================================
\* The indexing pipeline invoke_par and the search
\* =====================================================================

RECURSIVE FromPaths(_, _, _)
\* Collection::from_paths : insert for each path of the iterator.
FromPaths(col, dir, list) ==
    IF list = <<>> THEN col
    ELSE FromPaths(CollectionInsert(col, dir, Head(list)), dir, Tail(list))

\* Document::new
Document(doc_id, page_content) == [doc_id |-> doc_id, page_content |-> page_content]
NoDocument == Document(-1, <<>>)
NoItem == <<>>
NoDocIndex == NewDocumentFrequencyIndex(-1)

\* A plausible slip: skip-and-warn, the loader goes on to the next path
\* after a failed read.
LoaderAfterReadSkip(p, ok) ==
    IF ok THEN [pc |-> "send", pos |-> p] ELSE [pc |-> "load", pos |-> p + 1]

\* load_docs: the ? after Document::from_file ends the thread with the
\* error; a Document that was read is sent next.
LoaderAfterRead(p, ok) ==
    IF ok THEN [pc |-> "send", pos |-> p] ELSE [pc |-> "err", pos |-> p]

\* A plausible slip: the sender survives the error return, so the channel
\* stays open.
SenderDroppedOnOkOnly(pc) == pc = "ok"

\* A stage's sender is dropped when its closure returns, with Ok or Err.
SenderDropped(pc) == pc \in {"ok", "err"}

\* A plausible slip: the receiving loop ends as soon as the queue is
\* empty (try_recv in place of the blocking iterator).
RecvEndsWhenEmpty(q, senderPc) == q = <<>>

\* `for x in receiver` ends when the queue is empty and the sender is
\* dropped.
RecvDisconnected(q, senderPc) == q = <<>> /\ SenderDropped(senderPc)

\* A plausible slip: an unbounded channel(), whose send never blocks.
CanSendAlways(q) == TRUE

\* SyncSender::send blocks while the buffer holds CHANNEL_BOUND items.
CanSend(q) == Len(q) < CHANNEL_BOUND

\* A plausible slip: the loader walks the paths from the last to the
\* first.
PathListDescending ==
    LET list == DirList(fs) IN [i \in DOMAIN list |-> list[Len(list) + 1 - i]]


\* The path list handed to load_docs.
PathList == DirList(fs)

\* ---- loader thread (load_docs) ----
\* get_document_id succeeds for every path: the Collection was built
\* from the same path set. send fails only when the receiver is gone,
\* and the tokenizer thread keeps it until the channel is closed.
LoaderLoad ==
    /\ pcLoader = "load"
    /\ pos <= Len(PathList)
    /\ LET path == PathList[pos]
           doc_id == index[path].document_id
           next == LoaderAfterRead(pos, path \notin readFails)
       IN  /\ pcLoader' = next.pc
           /\ pos' = next.pos
           /\ loaderDoc' = IF next.pc = "send"
                           THEN Document(doc_id, Content(path))
                           ELSE NoDocument
    /\ UNCHANGED <<emitted, readFails, q1, tokVars, q2, idxrVars, q3, mainVars, search,
                   colVars, idxVars, auxVars>>

LoaderSend ==
    /\ pcLoader = "send"
    /\ CanSend(q1)
    /\ q1' = Append(q1, loaderDoc)
    /\ emitted' = Append(emitted, loaderDoc.doc_id)
    /\ loaderDoc' = NoDocument
    /\ pos' = pos + 1
    /\ pcLoader' = "load"
    /\ UNCHANGED <<readFails, tokVars, q2, idxrVars, q3, mainVars, search, colVars, idxVars, auxVars>>

LoaderEnd ==
    /\ pcLoader = "load"
    /\ pos > Len(PathList)
    /\ pcLoader' = "ok"
    /\ UNCHANGED <<pos, loaderDoc, emitted, readFails, q1, tokVars, q2, idxrVars, q3,
                   mainVars, search, colVars, idxVars, auxVars>>

LoaderNext == LoaderLoad \/ LoaderSend \/ LoaderEnd

\* ---- tokenizer thread (tokenize_content) ----
TokRecv ==
    /\ pcTok = "recv"
    /\ q1 # <<>>
    /\ LET document == Head(q1)
           t == Tokenize(vocabulary, document.page_content)
       IN  /\ vocabulary' = t.vocabulary
           /\ tokItem' = <<document.doc_id, t.tokens>>
           /\ tokenized' = Append(tokenized, document.doc_id)
    /\ q1' = Tail(q1)
    /\ pcTok' = "send"
    /\ UNCHANGED <<readFails, loaderVars, q2, idxrVars, q3, mainVars, search, colVars, idxVars, auxVars>>

TokSend ==
    /\ pcTok = "send"
    /\ CanSend(q2)
    /\ q2' = Append(q2, tokItem)
    /\ tokItem' = NoItem
    /\ pcTok' = "recv"
    /\ UNCHANGED <<vocabulary, tokenized, readFails, loaderVars, q1, idxrVars, q3, mainVars,
                   search, colVars, idxVars, auxVars>>

TokEnd ==
    /\ pcTok = "recv"
    /\ RecvDisconnected(q1, pcLoader)
    /\ pcTok' = "ok"
    /\ UNCHANGED <<vocabulary, tokItem, tokenized, readFails, loaderVars, q1, q2, idxrVars,
                   q3, mainVars, search, colVars, idxVars, auxVars>>

TokNext == TokRecv \/ TokSend \/ TokEnd

\* ---- indexer thread (index_documents) ----
IdxrRecv ==
    /\ pcIdxr = "recv"
    /\ q2 # <<>>
    /\ LET doc_id == Head(q2)[1]
           tokens == Head(q2)[2]
       IN  /\ idxrItem' = IndexTokens(NewDocumentFrequencyIndex(doc_id), tokens)
           /\ built' = Append(built, doc_id)
    /\ q2' = Tail(q2)
    /\ pcIdxr' = "send"
    /\ UNCHANGED <<readFails, loaderVars, q1, tokVars, q3, mainVars, search, colVars, idxVars, auxVars>>

IdxrSend ==
    /\ pcIdxr = "send"
    /\ CanSend(q3)
    /\ q3' = Append(q3, idxrItem)
    /\ idxrItem' = NoDocIndex
    /\ pcIdxr' = "recv"
    /\ UNCHANGED <<built, readFails, loaderVars, q1, tokVars, q2, mainVars, search,
                   colVars, idxVars, auxVars>>

IdxrEnd ==
    /\ pcIdxr = "recv"
    /\ RecvDisconnected(q2, pcTok)
    /\ pcIdxr' = "ok"
    /\ UNCHANGED <<idxrItem, built, readFails, loaderVars, q1, tokVars, q2, q3, mainVars,
                   search, colVars, idxVars, auxVars>>

IdxrNext == IdxrRecv \/ IdxrSend \/ IdxrEnd

\* ---- main thread (invoke_par) ----
\* for doc_index in doc_index_receiver { indexer.index(doc_index) }
MainFold ==
    /\ pcMain = "drain"
    /\ q3 # <<>>
    /\ LET doc_index == Head(q3)
           fi == FrequencyIndexIndex(CurrentIndex, doc_index)
       IN  /\ inverted_index' = fi.inverted_index
           /\ doc_terms_counter' = fi.doc_terms_counter
           /\ folded' = folded \cup {doc_index}
           /\ distinctIds' = (distinctIds /\ doc_index.id \notin DOMAIN doc_terms_counter)
           /\ foldOrder' = Append(foldOrder, doc_index.id)
    /\ q3' = Tail(q3)
    /\ UNCHANGED <<pcMain, vocabFile, indexFile, readFails, loaderVars, q1, tokVars, q2,
                   idxrVars, search, colVars, auxVars>>

MainDrainEnd ==
    /\ pcMain = "drain"
    /\ RecvDisconnected(q3, pcIdxr)
    /\ pcMain' = "join1"
    /\ UNCHANGED <<vocabFile, indexFile, foldOrder, readFails, loaderVars, q1, tokVars, q2,
                   idxrVars, q3, search, colVars, idxVars, auxVars>>

\* h1.join(), h2.join(), h3.join(): each waits for its thread to return.
MainJoin ==
    /\ \/ pcMain = "join1" /\ SenderDropped(pcLoader) /\ pcMain' = "join2"
       \/ pcMain = "join2" /\ SenderDropped(pcTok) /\ pcMain' = "join3"
       \/ pcMain = "join3" /\ SenderDropped(pcIdxr) /\ pcMain' = "check"
    /\ UNCHANGED <<vocabFile, indexFile, foldOrder, readFails, loaderVars, q1, tokVars, q2,
                   idxrVars, q3, search, colVars, idxVars, auxVars>>

\* A plausible slip: the loader's result is not looked at before the
\* files are written.
MainAfterCheckIgnored(loaderPc) == "write_vocab"

\* r1?; : the loader's error is returned at once, before any file is
\* written.
MainAfterCheck(loaderPc) == IF loaderPc = "err" THEN "err" ELSE "write_vocab"

\* r1?; : the loader's error ends invoke_par.
MainCheck ==
    /\ pcMain = "check"
    /\ pcMain' = MainAfterCheck(pcLoader)
    /\ UNCHANGED <<vocabFile, indexFile, foldOrder, readFails, loaderVars, q1, tokVars, q2,
                   idxrVars, q3, search, colVars, idxVars, auxVars>>

\* let tokenizer = r2?; tokenizer.to_file(..)?; r3?;
MainWriteVocab ==
    /\ pcMain = "write_vocab"
    /\ vocabFile' = [written |-> TRUE, vocabulary |-> vocabulary]
    /\ pcMain' = "write_index"
    /\ UNCHANGED <<indexFile, foldOrder, readFails, loaderVars, q1, tokVars, q2,
                   idxrVars, q3, search, colVars, idxVars, auxVars>>

\* indexer.build() and index.write_to_file(..)?
MainWriteIndex ==
    /\ pcMain = "write_index"
    /\ indexFile' = [written |-> TRUE, index |-> CurrentIndex]
    /\ pcMain' = "ok"
    /\ UNCHANGED <<vocabFile, foldOrder, readFails, loaderVars, q1, tokVars, q2,
                   idxrVars, q3, search, colVars, idxVars, auxVars>>

MainNext ==
    MainFold \/ MainDrainEnd \/ MainJoin \/ MainCheck \/ MainWriteVocab \/ MainWriteIndex

\* ---- search (searchine/src/cli/search.rs) ----

\* The union, over the terms of the Query, of doc_ids_containing(term).
ScoredDocuments(fi, query) ==
    UNION {DocIdsContaining(fi, term) : term \in DOMAIN query}

\* Scores are f64 in the code; the model computes them in fixed point
\* (tf and idf in thousandths, their product in millionths), and sums
\* are exact.
\* (x as f64).log(10.0) for the small integers the model divides: the
\* thousandths of the decimal logarithm.
Log10Milli(x) ==
    CASE x = 1 -> 0   [] x = 2 -> 301 [] x = 3 -> 477 [] x = 4 -> 602
      [] x = 5 -> 699 [] x = 6 -> 778 [] x = 7 -> 845 [] x = 8 -> 903
      [] x = 9 -> 954 [] x = 10 -> 1000 [] x = 11 -> 1041 [] x = 12 -> 1079
      [] x = 13 -> 1114 [] x = 14 -> 1146 [] x = 15 -> 1176 [] x = 16 -> 1204

\* score::calc_tf
CalcTf(t, d) == IF d = 0 THEN 0 ELSE (t * 1000) \div d

\* The counts d and n are u32. The model gives a u32 IntWidth bits, so
\* that the largest value and the one after it are within reach.
U32Modulus == 2 ^ IntWidth
U32Max == U32Modulus - 1
U32 == 0..U32Max

\* The f64 values a score can be: a number (in thousandths), an infinity
\* or NaN; Panicked stands for a call that panics and returns no value.
Finite(milli) == [class |-> "finite", milli |-> milli]
PosInf == [class |-> "inf"]
NegInf == [class |-> "neg_inf"]
NaN == [class |-> "nan"]
Panicked == [class |-> "panic"]

\* x + 1 on a u32: a panic where overflow checks are compiled in (debug
\* builds), the wrapped value where they are not (release builds).
AddOne(x, build) ==
    IF x = U32Max
    THEN IF build = "debug" THEN [panic |-> TRUE] ELSE [panic |-> FALSE, value |-> 0]
    ELSE [panic |-> FALSE, value |-> x + 1]

\* score::calc_idf : ((n + 1) as f64 / (d + 1) as f64).log(10.0)
CalcIdf(d, n, build) ==
    LET num == AddOne(n, build)
        den == AddOne(d, build)
    IN  IF num.panic \/ den.panic THEN Panicked
        ELSE IF num.value = 0 /\ den.value = 0 THEN NaN
        ELSE IF den.value = 0 THEN PosInf
        ELSE IF num.value = 0 THEN NegInf
        ELSE Finite(Log10Milli(num.value) - Log10Milli(den.value))

\* score::calc_tf_idf, on an idf that is a number
CalcTfIdf(tf, idf) == tf * idf.milli

\* Index::calc_idf of a FrequencyIndex
IndexCalcIdf(fi, term, build) == CalcIdf(NDocsContaining(fi, term), NDocs(fi), build)

\* Index::calc_tf_idf of a FrequencyIndex. The counts of the indexes the
\* model builds stay far below U32Max, where both builds agree.
IndexCalcTfIdf(fi, doc_id, term) ==
    LET tf == CalcTf(TermFrequency(fi, doc_id, term), NTerms(fi, doc_id))
        idf == IndexCalcIdf(fi, term, "release")
    IN  CalcTfIdf(tf, idf)

\* ---- calc_idf on its own: calls with one n and any d ----

NoIdfCall == [called |-> FALSE]

IdfInit ==
    /\ idfBuild \in {"debug", "release"}
    /\ idfN \in U32
    /\ idfPrev = NoIdfCall
    /\ idfLast = NoIdfCall

IdfIdle ==
    /\ idfBuild = "release"
    /\ idfN = 0
    /\ idfPrev = NoIdfCall
    /\ idfLast = NoIdfCall

\* One call calc_idf(d, idfN).
CalcIdfCall(d) ==
    /\ idfPrev' = idfLast
    /\ idfLast' = [called |-> TRUE, d |-> d, idf |-> CalcIdf(d, idfN, idfBuild)]
    /\ UNCHANGED <<idfBuild, idfN, nonIdfVars>>

IdfNext == \E d \in U32 : CalcIdfCall(d)

\* a > b on f64 values (false when either is NaN).
FloatGreater(a, b) ==
    CASE a.class = "nan" \/ b.class = "nan" -> FALSE
      [] a.class = "inf" -> b.class # "inf"
      [] a.class = "neg_inf" -> FALSE
      [] b.class = "inf" -> FALSE
      [] b.class = "neg_inf" -> TRUE
      [] OTHER -> a.milli > b.milli

\* C21: for a fixed n and any d1 < d2, both calls return and
\* calc_idf(d2, n) is not greater than calc_idf(d1, n).
C21_IdfNonIncreasing ==
    (idfPrev.called /\ idfLast.called) =>
        LET lo == IF idfPrev.d < idfLast.d THEN idfPrev ELSE idfLast
            hi == IF idfPrev.d < idfLast.d THEN idfLast ELSE idfPrev
        IN  lo.d < hi.d =>
                /\ lo.idf # Panicked
                /\ hi.idf # Panicked
                /\ ~FloatGreater(hi.idf, lo.idf)

\* C22: for every n >= 1, calc_idf(n, n), the idf of a term that every
\* document contains, is neither zero nor negative: it is a positive
\* number.
C22_IdfOfUbiquitousTermPositive ==
    (idfLast.called /\ idfN >= 1 /\ idfLast.d = idfN) =>
        \/ idfLast.idf = PosInf
        \/ idfLast.idf.class = "finite" /\ idfLast.idf.milli > 0

RECURSIVE ScoreDocuments(_, _, _, _, _)
\* The inner loop of search::invoke: for doc_id in doc_ids_containing(term).
ScoreDocuments(inner, fi, term, count, docsLeft) ==
    IF docsLeft = {} THEN inner
    ELSE LET doc_id == CHOOSE d \in docsLeft : TRUE
             score == count * IndexCalcTfIdf(fi, doc_id, term)
         IN  ScoreDocuments(AddScore(inner, doc_id, score), fi, term, count,
                            docsLeft \ {doc_id})

RECURSIVE ScoreQuery(_, _, _, _)
\* The outer loop of search::invoke: for (term, count) in query.
ScoreQuery(inner, fi, query, termsLeft) ==
    IF termsLeft = {} THEN inner
    ELSE LET term == CHOOSE t \in termsLeft : TRUE
         IN  ScoreQuery(ScoreDocuments(inner, fi, term, query[term],
                                       DocIdsContaining(fi, term)),
                        fi, query, termsLeft \ {term})

\* search::invoke on the persisted index, for one of the query texts.
Search(text) ==
    /\ pcMain = "ok"
    /\ ~search.done
    /\ LET t == Tokenize(DefaultTokenizerVocabulary, text)
           query == QueryFrom(t.tokens)
           inner == ScoreQuery(EmptyMap, indexFile.index, query, DOMAIN query)
       IN  search' = [done |-> TRUE, text |-> text, tokens |-> t.tokens,
                      vocabulary |-> t.vocabulary,
                      scores |-> inner,
                      scored |-> DOMAIN inner]
    /\ UNCHANGED <<readFails, loaderVars, q1, tokVars, q2, idxrVars, q3, mainVars,
                   colVars, idxVars, auxVars>>

NoSearch ==
    [done |-> FALSE, text |-> <<>>, tokens |-> <<>>, vocabulary |-> EmptyMap,
     scores |-> EmptyMap, scored |-> {}]

\* =====================================================================
\* The components before they run
\* =====================================================================

FplIdle ==
    /\ postings = {}
    /\ fplCalls = <<>>

NoStatus == [done |-> FALSE]
NoRepoSearch == [done |-> FALSE]

RepoIdle ==
    /\ collectionFile = [written |-> FALSE, index |-> EmptyMap]
    /\ indexedPaths = EmptyMap
    /\ statusReport = NoStatus
    /\ repoSearch = NoRepoSearch

SeqIdle ==
    /\ seqPc = "loop"
    /\ seqVocabulary = EmptyMap
    /\ seqIndexer = NewFrequencyIndex
    /\ seqVisited = <<>>
    /\ seqVocabFile = [written |-> FALSE, vocabulary |-> EmptyMap]
    /\ seqIndexFile = [written |-> FALSE, index |-> NewFrequencyIndex]

MergeIdle ==
    /\ postings1 = <<>>
    /\ postings2 = <<>>
    /\ p1 = 1
    /\ p2 = 1
    /\ merged = <<>>
    /\ mergePc = "loop"

BlocksIdle ==
    /\ dirEntries = <<>>
    /\ entries = <<>>
    /\ max_block_size = 0
    /\ blocks = <<>>
    /\ blocksPc = "loop"

ExtIdle == IdfIdle /\ FplIdle /\ RepoIdle /\ SeqIdle /\ MergeIdle /\ BlocksIdle

\* The pipeline before it runs.
PipeIdle ==
    /\ readFails = {}
    /\ pcLoader = "load" /\ pos = 1 /\ loaderDoc = NoDocument /\ emitted = <<>>
    /\ q1 = <<>> /\ q2 = <<>> /\ q3 = <<>>
    /\ pcTok = "recv" /\ vocabulary = EmptyMap /\ tokItem = NoItem /\ tokenized = <<>>
    /\ pcIdxr = "recv" /\ idxrItem = NoDocIndex /\ built = <<>>
    /\ pcMain = "drain" /\ foldOrder = <<>>
    /\ vocabFile = [written |-> FALSE, vocabulary |-> EmptyMap]
    /\ indexFile = [written |-> FALSE, index |-> NewFrequencyIndex]
    /\ search = NoSearch

\* invoke_par up to the spawn of the three threads: some directory, the
\* Collection built from its sorted path set, and the reads that fail.
PipeInit ==
    /\ fs \in [Paths -> {0, 1}]
    /\ index = FromPaths(EmptyMap, fs, DirList(fs))
    /\ lastInsert = {}
    /\ freed = {}
    /\ IdxInit
    /\ readFails \in SUBSET LivePaths(fs)
    /\ pcLoader = "load" /\ pos = 1 /\ loaderDoc = NoDocument /\ emitted = <<>>
    /\ q1 = <<>> /\ q2 = <<>> /\ q3 = <<>>
    /\ pcTok = "recv" /\ vocabulary = EmptyMap /\ tokItem = NoItem /\ tokenized = <<>>
    /\ pcIdxr = "recv" /\ idxrItem = NoDocIndex /\ built = <<>>
    /\ pcMain = "drain" /\ foldOrder = <<>>
    /\ vocabFile = [written |-> FALSE, vocabulary |-> EmptyMap]
    /\ indexFile = [written |-> FALSE, index |-> NewFrequencyIndex]
    /\ search = NoSearch
    /\ encoder = EmptyMap /\ encCalls = 0
    /\ tokText = <<>> /\ tokOut = NoTokens
    /\ sharedVocab = EmptyMap /\ vocabMutex = {}
    /\ pcWorker = [p \in Paths |-> "idle"] /\ workerTokens = [p \in Paths |-> <<>>]
    /\ scores = EmptyMap /\ nAddScore = 0 /\ topN = NoTopN
    /\ ExtIdle

PipeNext ==
    \/ LoaderNext
    \/ TokNext
    \/ IdxrNext
    \/ MainNext
    \/ \E text \in QueryTexts : Search(text)

\* ---------------------------------------------------------------------
\* Properties of the pipeline and the search
\* ---------------------------------------------------------------------

IsPrefix(s, t) == Len(s) <= Len(t) /\ SubSeq(t, 1, Len(s)) = s

NoDuplicates(s) == \A i, j \in DOMAIN s : i # j => s[i] # s[j]

\* The DocumentFrequencyIndex of the document with DocumentId d, built
\* from the stems of its text under the final vocabulary.
PathOfId(d) == CHOOSE p \in DOMAIN index : index[p].document_id = d
ExpectedDocIndex(d) ==
    LET stems == Stems(Content(PathOfId(d)))
    IN  IndexTokens(NewDocumentFrequencyIndex(d),
                    [i \in DOMAIN stems |-> vocabulary[stems[i]]])

\* C3: in every interleaving each Document the loader emits is tokenized
\* once, turned into one DocumentFrequencyIndex and folded once before
\* the main drain loop ends; none is dropped or handled twice, also when
\* the loader fails on a later path.
C3_EachDocumentFoldedOnce ==
    /\ NoDuplicates(emitted)
    /\ IsPrefix(tokenized, emitted)
    /\ IsPrefix(built, tokenized)
    /\ IsPrefix(foldOrder, built)
    /\ folded = {ExpectedDocIndex(d) : d \in Range(foldOrder)}
    /\ pcMain # "drain" => /\ tokenized = emitted
                           /\ built = emitted
                           /\ foldOrder = emitted
                           /\ SenderDropped(pcLoader)

\* C3 witness: the drain loop has ended in a run where the loader sent
\* two documents and then failed on the third path.
C3_Witness ==
    /\ pcMain # "drain"
    /\ pcLoader = "err"
    /\ Len(foldOrder) = 2

\* invoke_par has returned and its three threads have ended.
PipelineFinished ==
    /\ pcMain \in {"ok", "err"}
    /\ SenderDropped(pcLoader)
    /\ pcTok = "ok"
    /\ pcIdxr = "ok"

\* C8: under fair scheduling of the four threads invoke_par finishes:
\* the three stage threads end and the main thread returns, when every
\* read succeeds and when the loader stops on a read failure.
C8_PipelineTerminates == <>PipelineFinished

\* C8 witness: a finished run in which the loader stopped on a read
\* failure after it had sent a document.
C8_Witness ==
    /\ PipelineFinished
    /\ pcLoader = "err"
    /\ emitted # <<>>

\* C8 witness of the other case: a finished run with every read
\* succeeding and every queue having been used.
C8_WitnessAllRead ==
    /\ PipelineFinished
    /\ pcLoader = "ok"
    /\ Len(foldOrder) = Cardinality(Paths)

\* The first path of the list whose read fails, if any.
FailingPositions == {i \in DOMAIN PathList : PathList[i] \in readFails}

\* C9: when the read of some path fails, the loader sends no Document
\* for that path or for a later one and ends with the error, and
\* invoke_par returns the error only after the loader, tokenizer and
\* indexer threads have been joined (and so have ended).
C9_ReadFailureIsFatal ==
    /\ \A i \in FailingPositions :
           /\ \A j \in i..Len(PathList) :
                  index[PathList[j]].document_id \notin Range(emitted)
           /\ pcLoader # "ok"
           /\ pos <= i
    /\ pcLoader = "err" => pos = Min(FailingPositions)
    /\ pcMain = "err" => /\ pcLoader = "err"
                         /\ pcTok = "ok"
                         /\ pcIdxr = "ok"
    /\ (FailingPositions # {} /\ pcMain \in {"check", "write_vocab", "write_index", "ok"})
           => pcLoader = "err" /\ pcMain = "check"

\* C9 witness: invoke_par has returned the error of a read that failed
\* on the second path, with a later path left unread.
C9_Witness ==
    /\ pcMain = "err"
    /\ Len(emitted) = 1
    /\ Len(PathList) = 3

\* The token ids the claim gives a query: the id the persisted
\* vocabulary holds for each stem, stems it lacks being dropped.
RECURSIVE LookupAll(_, _)
LookupAll(vocab, stems) ==
    IF stems = <<>> THEN <<>>
    ELSE IF Head(stems) \in DOMAIN vocab
         THEN <<vocab[Head(stems)]>> \o LookupAll(vocab, Tail(stems))
         ELSE LookupAll(vocab, Tail(stems))

\* C10: the query tokenization of search maps every query term to the
\* TokenId the index-time Vocabulary gave it and drops the terms that
\* Vocabulary lacks, and the documents scored are those that hold one of
\* the terms kept: a dropped term adds nothing to any score.
C10_QueryUsesIndexVocabulary ==
    search.done =>
        LET expected == LookupAll(vocabFile.vocabulary, Stems(search.text))
        IN  /\ search.tokens = expected
            /\ search.scored =
                   UNION {DocIdsContaining(indexFile.index, t) : t \in Range(expected)}

\* C15: after a query is scored, the documents with an entry in the
\* scores table are exactly the union, over the query's tokens t, of
\* doc_ids_containing(t): a document that holds none of the query's
\* tokens has no entry, and a query on an empty index gives an empty
\* table.
C15_ScoredAreThoseContaining ==
    search.done =>
        LET fi == indexFile.index
            query == QueryFrom(search.tokens)
        IN  /\ DOMAIN search.scores = ScoredDocuments(fi, query)
            /\ \A d \in DOMAIN fi.doc_terms_counter :
                   (\A t \in Range(search.tokens) : d \notin DocIdsContaining(fi, t))
                       => d \notin DOMAIN search.scores
            /\ NDocs(fi) = 0 => search.scores = EmptyMap

\* C15 witness: a query was scored on an index of three documents, two
\* of which hold its token and one of which does not.
C15_Witness ==
    /\ search.done
    /\ search.tokens # <<>>
    /\ NDocs(indexFile.index) = 3
    /\ Cardinality(DOMAIN search.scores) = 2

\* C15 witness of a query of two tokens, one document holding both.
C15_WitnessTwoTokens ==
    /\ search.done
    /\ Cardinality(Range(search.tokens)) = 2
    /\ \E d \in DOMAIN search.scores :
           \A t \in Range(search.tokens) : d \in DocIdsContaining(indexFile.index, t)

\* C15 witness of the other cases: a query on an empty index, and an
\* entry whose score is zero.
C15_WitnessEmptyIndex ==
    /\ search.done
    /\ search.tokens # <<>>
    /\ NDocs(indexFile.index) = 0

C15_WitnessZeroScore ==
    /\ search.done
    /\ \E d \in DOMAIN search.scores : search.scores[d] = 0

\* Each of the three queues holds at most CHANNEL_BOUND items.
QueuesBounded ==
    /\ Len(q1) <= CHANNEL_BOUND
    /\ Len(q2) <= CHANNEL_BOUND
    /\ Len(q3) <= CHANNEL_BOUND

\* C17 as stated: each queue holds at most CHANNEL_BOUND items, and a
\* stage whose output queue is full takes no step at all until the
\* downstream stage has removed an item.
C17_FullQueueStopsStage ==
    /\ []QueuesBounded
    /\ [][/\ Len(q1) = CHANNEL_BOUND => UNCHANGED loaderVars
          /\ Len(q2) = CHANNEL_BOUND => UNCHANGED tokVars
          /\ Len(q3) = CHANNEL_BOUND => UNCHANGED idxrVars]_vars

\* C17 as amended: each queue holds at most CHANNEL_BOUND items, and a
\* stage that has an item to send while its output queue is full takes
\* no step until the downstream stage has removed an item. (A stage
\* whose output queue is full still prepares its next item, or ends,
\* before it blocks in send.)
C17_FullQueueBlocksSend ==
    /\ []QueuesBounded
    /\ [][/\ (pcLoader = "send" /\ Len(q1) = CHANNEL_BOUND) => UNCHANGED loaderVars
          /\ (pcTok = "send" /\ Len(q2) = CHANNEL_BOUND) => UNCHANGED tokVars
          /\ (pcIdxr = "send" /\ Len(q3) = CHANNEL_BOUND) => UNCHANGED idxrVars]_vars

\* C17 witness: the loader holds a Document to send while its queue is
\* full.
C17_Witness ==
    /\ pcLoader = "send"
    /\ Len(q1) = CHANNEL_BOUND

\* C17 witnesses of the other two stages blocked in send.
C17_WitnessTokenizer ==
    /\ pcTok = "send"
    /\ Len(q2) = CHANNEL_BOUND

C17_WitnessIndexer ==
    /\ pcIdxr = "send"
    /\ Len(q3) = CHANNEL_BOUND

\* =====================================================================
\* A FrequencyPostingsList on its own
\* =====================================================================

\* The DocumentIds and frequencies of the calls.
FplDocIds == {1, 2}
FplFrequencies == {3, 5}

FplInit ==
    /\ postings = {}
    /\ fplCalls = <<>>

\* A call add(FrequencyPosting::new(doc_id, frequency)).
FplAdd(doc_id, frequency) ==
    /\ Len(fplCalls) < MaxPostingCalls
    /\ postings' = PostingsListAdd(postings, FrequencyPosting(doc_id, frequency))
    /\ fplCalls' = Append(fplCalls, [op |-> "add", doc_id |-> doc_id, frequency |-> frequency])
    /\ UNCHANGED nonFplVars

\* A call remove(doc_id).
FplRemove(doc_id) ==
    /\ Len(fplCalls) < MaxPostingCalls
    /\ postings' = PostingsListRemove(postings, doc_id)
    /\ fplCalls' = Append(fplCalls, [op |-> "remove", doc_id |-> doc_id])
    /\ UNCHANGED nonFplVars

FplNext ==
    \/ \E doc_id \in FplDocIds, frequency \in FplFrequencies : FplAdd(doc_id, frequency)
    \/ \E doc_id \in FplDocIds : FplRemove(doc_id)

\* The position of the last remove(d) among the calls, 0 when there is none.
LastRemove(calls, d) ==
    LET at == {i \in DOMAIN calls : calls[i].op = "remove" /\ calls[i].doc_id = d}
    IN  IF at = {} THEN 0 ELSE CHOOSE i \in at : \A j \in at : j <= i

\* The positions of the adds of d since its last remove.
AddsSinceRemove(calls, d) ==
    {i \in DOMAIN calls : /\ calls[i].op = "add"
                          /\ calls[i].doc_id = d
                          /\ i > LastRemove(calls, d)}

\* C24: after any sequence of add and remove calls the list holds one
\* posting for each DocumentId added since its last remove, with the
\* frequency of the first such add, and none for any other DocumentId;
\* len() counts these DocumentIds and get(d) is none for the others.
C24_PostingsListIsFirstAddSinceRemove ==
    LET present == {d \in FplDocIds : AddsSinceRemove(fplCalls, d) # {}}
    IN  /\ PostingsListDocIds(postings) = present
        /\ PostingsListLen(postings) = Cardinality(present)
        /\ \A d \in present :
               PostingsListGet(postings, d) =
                   {FrequencyPosting(d, fplCalls[Min(AddsSinceRemove(fplCalls, d))].frequency)}
        /\ \A d \in FplDocIds \ present : PostingsListGet(postings, d) = {}

\* C24 witness: a DocumentId was added, removed and then added twice
\* with two frequencies; the list holds the first of the two.
C24_Witness ==
    /\ Len(fplCalls) = 4
    /\ fplCalls[1] = [op |-> "add", doc_id |-> 2, frequency |-> 5]
    /\ fplCalls[2] = [op |-> "remove", doc_id |-> 2]
    /\ fplCalls[3] = [op |-> "add", doc_id |-> 2, frequency |-> 3]
    /\ fplCalls[4] = [op |-> "add", doc_id |-> 2, frequency |-> 5]
    /\ postings = {FrequencyPosting(2, 3)}

\* =====================================================================
\* The sequential loop invoke, next to the pipeline
\* =====================================================================

\* invoke builds its Collection from the same sorted path set as
\* invoke_par does: it is the Collection index of the pipeline model.

\* One pass of the loop for (path, _) in &corpus_index. The loop follows
\* the iteration order of the Collection's HashMap, which is any order:
\* the next path is any path not yet visited. A read that fails panics
\* (expect).
SeqIndexDocument(path) ==
    /\ seqPc = "loop"
    /\ path \in DOMAIN index
    /\ path \notin Range(seqVisited)
    /\ seqVisited' = Append(seqVisited, path)
    /\ IF path \in readFails
       THEN /\ seqPc' = "panic"
            /\ UNCHANGED <<seqVocabulary, seqIndexer>>
       ELSE LET document_id == index[path].document_id
                t == Tokenize(seqVocabulary, Content(path))
                doc_index == IndexTokens(NewDocumentFrequencyIndex(document_id), t.tokens)
            IN  /\ seqVocabulary' = t.vocabulary
                /\ seqIndexer' = FrequencyIndexIndex(seqIndexer, doc_index)
                /\ seqPc' = "loop"
    /\ UNCHANGED <<seqVocabFile, seqIndexFile, nonSeqVars>>

\* After the loop: indexer.build(), index.write_to_file, tokenizer.to_file.
SeqWriteFiles ==
    /\ seqPc = "loop"
    /\ Range(seqVisited) = DOMAIN index
    /\ seqIndexFile' = [written |-> TRUE, index |-> seqIndexer]
    /\ seqVocabFile' = [written |-> TRUE, vocabulary |-> seqVocabulary]
    /\ seqPc' = "ok"
    /\ UNCHANGED <<seqVocabulary, seqIndexer, seqVisited, nonSeqVars>>

SeqNext ==
    \/ \E path \in Paths : SeqIndexDocument(path)
    \/ SeqWriteFiles

\* invoke and invoke_par, each run once on the same directory.
BothNext == PipeNext \/ SeqNext

\* C25: on the same directory, every read succeeding, the sequential
\* loop invoke and the pipeline invoke_par write the same Vocabulary and
\* the same FrequencyIndex.
C25_SequentialMatchesPipeline ==
    (seqPc = "ok" /\ pcMain = "ok") =>
        /\ seqVocabFile.vocabulary = vocabFile.vocabulary
        /\ seqIndexFile.index = indexFile.index

\* =====================================================================
\* merge_postings
\* =====================================================================

\* Posting { doc_id, term_freq }
Posting(doc_id, term_freq) == [doc_id |-> doc_id, term_freq |-> term_freq]

\* The DocumentIds and term frequencies of the input postings. The
\* frequencies are usize counts far below usize::MAX.
MergeDocIds == 1..(MaxPostings + 1)
MergeFrequencies == {1, 2}

\* The postings lists sorted by strictly increasing doc_id, up to
\* MaxPostings long.
SortedPostings ==
    UNION {{s \in [1..n -> [doc_id : MergeDocIds, term_freq : MergeFrequencies]] :
               \A i \in 1..(n - 1) : s[i].doc_id < s[i + 1].doc_id} : n \in 0..MaxPostings}

\* merge_postings up to the loop: both iterators at their first posting.
MergeInit ==
    /\ postings1 \in SortedPostings
    /\ postings2 \in SortedPostings
    /\ p1 = 1
    /\ p2 = 1
    /\ merged = <<>>
    /\ mergePc = "loop"

\* A plausible slip: the posting that only one list holds is kept too
\* (a union in place of the intersection).
MergeBodyUnion(p1_, p2_) ==
    IF p1_.doc_id = p2_.doc_id
    THEN [add |-> <<Posting(p1_.doc_id, p1_.term_freq + p2_.term_freq)>>, next1 |-> 1, next2 |-> 1]
    ELSE IF p1_.doc_id < p2_.doc_id
         THEN [add |-> <<p1_>>, next1 |-> 1, next2 |-> 0]
         ELSE [add |-> <<p2_>>, next1 |-> 0, next2 |-> 1]

\* The body of the while loop for the current postings p1_ and p2_:
\* what is pushed, and which iterators advance.
MergeBody(p1_, p2_) ==
    IF p1_.doc_id = p2_.doc_id
    THEN [add |-> <<Posting(p1_.doc_id, p1_.term_freq + p2_.term_freq)>>, next1 |-> 1, next2 |-> 1]
    ELSE IF p1_.doc_id < p2_.doc_id
         THEN [add |-> <<>>, next1 |-> 1, next2 |-> 0]
         ELSE [add |-> <<>>, next1 |-> 0, next2 |-> 1]

\* One pass of while let (Some(p1_), Some(p2_)) = (p1, p2).
MergeStep ==
    /\ mergePc = "loop"
    /\ p1 <= Len(postings1)
    /\ p2 <= Len(postings2)
    /\ LET body == MergeBody(postings1[p1], postings2[p2])
       IN  /\ merged' = merged \o body.add
           /\ p1' = p1 + body.next1
           /\ p2' = p2 + body.next2
    /\ UNCHANGED <<postings1, postings2, mergePc, nonMergeVars>>

\* The loop ends when either iterator has returned None; merged is
\* returned.
MergeReturn ==
    /\ mergePc = "loop"
    /\ p1 > Len(postings1) \/ p2 > Len(postings2)
    /\ mergePc' = "done"
    /\ UNCHANGED <<postings1, postings2, p1, p2, merged, nonMergeVars>>

MergeNext == MergeStep \/ MergeReturn

\* The DocumentIds of a postings list, and the frequency it has for one.
PostingIds(list) == {list[i].doc_id : i \in DOMAIN list}
FrequencyIn(list, d) == list[CHOOSE i \in DOMAIN list : list[i].doc_id = d].term_freq

\* The result is the intersection: in increasing doc_id order one
\* posting for each DocumentId of both inputs, with the summed frequency.
MergedIsIntersection ==
    LET common == SortedSeq(PostingIds(postings1) \cap PostingIds(postings2))
    IN  merged = [i \in DOMAIN common |->
                     Posting(common[i],
                             FrequencyIn(postings1, common[i]) + FrequencyIn(postings2, common[i]))]

\* C29: for two postings lists sorted by strictly increasing DocumentId
\* merge_postings terminates, and what it returns is, in increasing
\* DocumentId order, one posting with the summed frequency for each
\* DocumentId of both inputs and nothing for a DocumentId of one input
\* only.
C29_MergeIsIntersection ==
    /\ <>(mergePc = "done")
    /\ [](mergePc = "done" => MergedIsIntersection)

\* C29 witness: a call has returned one merged posting from two lists
\* that each hold a further DocumentId the other lacks.
C29_Witness ==
    /\ mergePc = "done"
    /\ Len(merged) = 1
    /\ PostingIds(postings1) \ PostingIds(postings2) # {}
    /\ PostingIds(postings2) \ PostingIds(postings1) # {}

\* =====================================================================
\* DocumentBlocks::from_entries
\* =====================================================================

\* A DirEntry: its path, the size its metadata gives, and whether the
\* metadata call succeeds.
DirEntry(path, size, metadata_ok) ==
    [path |-> path, size |-> size, metadata_ok |-> metadata_ok]

\* The entries arguments: up to MaxEntries entries, the path of an entry
\* being its position.
EntryLists ==
    UNION {{[i \in 1..n |-> DirEntry(i, sizes[i], oks[i])] :
               sizes \in [1..n -> 0..MaxFileSize], oks \in [1..n -> BOOLEAN]} :
           n \in 0..MaxEntries}

\* The max_block_size arguments.
BlockSizes == 0..(MaxFileSize + 1)

\* Block::new and Block::add_entry
NewBlock == [entries |-> <<>>, size |-> 0]
AddEntry(block, path, size) ==
    [entries |-> Append(block.entries, path), size |-> block.size + size]

\* Vec::remove(idx)
VecRemove(v, idx) == SubSeq(v, 1, idx - 1) \o SubSeq(v, idx + 1, Len(v))

\* extract_block: the test block.size + entry_size < max_block_size.
Fits(block_size, entry_size, max) == block_size + entry_size < max

RECURSIVE ExtractBlock(_, _, _, _)
\* extract_block: the loop for idx in (0..entries.len()).rev(), from the
\* position idx downwards (positions count from 1 here). The ? on
\* metadata() returns the error.
ExtractBlock(ents, max, idx, block) ==
    IF idx = 0 THEN [err |-> FALSE, block |-> block, entries |-> ents]
    ELSE IF ~ents[idx].metadata_ok THEN [err |-> TRUE, block |-> block, entries |-> ents]
    ELSE LET entry_size == ents[idx].size
         IN  IF Fits(block.size, entry_size, max)
             THEN ExtractBlock(VecRemove(ents, idx), max, idx - 1,
                               AddEntry(block, ents[idx].path, entry_size))
             ELSE ExtractBlock(ents, max, idx - 1, block)

\* The loop of from_entries pushes a block on every pass; the model
\* records the first BlocksCap of them.
BlocksCap == MaxEntries + 2

BlocksInit ==
    /\ dirEntries \in EntryLists
    /\ entries = dirEntries
    /\ max_block_size \in BlockSizes
    /\ blocks = <<>>
    /\ blocksPc = "loop"

\* One pass of while !entries.is_empty(): extract_block(..)? and push.
FromEntriesStep ==
    /\ blocksPc = "loop"
    /\ entries # <<>>
    /\ Len(blocks) < BlocksCap
    /\ LET r == ExtractBlock(entries, max_block_size, Len(entries), NewBlock)
       IN  IF r.err
           THEN /\ blocksPc' = "err"
                /\ entries' = r.entries
                /\ UNCHANGED blocks
           ELSE /\ blocks' = Append(blocks, r.block)
                /\ entries' = r.entries
                /\ UNCHANGED blocksPc
    /\ UNCHANGED <<dirEntries, max_block_size, nonBlockVars>>

\* entries is empty: Ok(Self { blocks, max_block_size }).
FromEntriesReturn ==
    /\ blocksPc = "loop"
    /\ entries = <<>>
    /\ blocksPc' = "ok"
    /\ UNCHANGED <<dirEntries, entries, max_block_size, blocks, nonBlockVars>>

BlocksNext == FromEntriesStep \/ FromEntriesReturn

\* How many blocks hold the path.
BlocksHolding(path) ==
    Cardinality({<<b, i>> \in (DOMAIN blocks) \X (1..MaxEntries) :
                    i \in DOMAIN blocks[b].entries /\ blocks[b].entries[i] = path})

\* C30: from_entries returns for every list of entries, whatever the
\* file sizes and max_block_size: every pass of its loop places at least
\* one entry in the block it pushes, so the loop ends; when it returns
\* the blocks, every entry is in exactly one block and every block's
\* total size is below max_block_size.
C30_FromEntriesTerminates ==
    /\ [][blocks' # blocks => Len(entries') < Len(entries)]_vars
    /\ <>(blocksPc \in {"ok", "err"})
    /\ [](blocksPc = "ok" =>
              /\ \A i \in DOMAIN dirEntries : BlocksHolding(dirEntries[i].path) = 1
              /\ \A b \in DOMAIN blocks : blocks[b].size < max_block_size)

\* =====================================================================
\* The repository: index-collection, status, index and search runs
\* =====================================================================

RECURSIVE IndexPaths(_, _, _, _)
\* The documents of list, in order, through one Tokenizer (vocab),
\* DocumentFrequencyIndex::index_tokens and FrequencyIndexer::index (fi),
\* with the DocumentIds of the Collection col.
IndexPaths(col, vocab, fi, list) ==
    IF list = <<>> THEN [vocabulary |-> vocab, index |-> fi]
    ELSE LET path == Head(list)
             t == Tokenize(vocab, Content(path))
             doc_index == IndexTokens(NewDocumentFrequencyIndex(col[path].document_id),
                                      t.tokens)
         IN  IndexPaths(col, t.vocabulary, FrequencyIndexIndex(fi, doc_index), Tail(list))

\* invoke_par from start to end on the directory dir, every read
\* succeeding: the Collection is built from the sorted paths and the
\* loader feeds the paths in that order.
InvokePar(dir) ==
    LET collection == FromPaths(EmptyMap, dir, DirList(dir))
    IN  IndexPaths(collection, DefaultTokenizerVocabulary, NewFrequencyIndex, DirList(dir))

\* A file is added to the directory.
RepoAddFile(path) ==
    /\ fs[path] = 0
    /\ fs' = [fs EXCEPT ![path] = 1]
    /\ statusReport' = NoStatus
    /\ repoSearch' = NoRepoSearch
    /\ UNCHANGED <<collectionFile, indexedPaths, vocabFile, indexFile, nonRepoVars>>

\* A file is removed from the directory.
RepoRemoveFile(path) ==
    /\ fs[path] # 0
    /\ fs' = [fs EXCEPT ![path] = 0]
    /\ statusReport' = NoStatus
    /\ repoSearch' = NoRepoSearch
    /\ UNCHANGED <<collectionFile, indexedPaths, vocabFile, indexFile, nonRepoVars>>

\* collection::index : a Collection built from the sorted paths of the
\* directory is written to the Collection file.
CollectionIndex ==
    /\ collectionFile' = [written |-> TRUE, index |-> FromPaths(EmptyMap, fs, DirList(fs))]
    /\ statusReport' = NoStatus
    /\ repoSearch' = NoRepoSearch
    /\ UNCHANGED <<fs, indexedPaths, vocabFile, indexFile, nonRepoVars>>

\* status::invoke : the Collection file is loaded, the three differences
\* against the directory are computed and displayed. Nothing else
\* happens: the loaded Collection is not changed and no file is written.
\* (Without a Collection file from_file fails and invoke returns the
\* error.) second records that this pass follows another status pass
\* with no command and no change of the directory between them.
StatusInvoke ==
    /\ collectionFile.written
    /\ LET corpus_index == collectionFile.index
           dir == DirList(fs)
       IN  statusReport' =
               [done |-> TRUE,
                second |-> statusReport.done,
                new |-> Range(FetchNewFiles(corpus_index, dir)),
                removed |-> FetchRemovedFiles(corpus_index, dir),
                modified |-> Range(FetchModifiedFiles(corpus_index, fs, dir))]
    /\ repoSearch' = NoRepoSearch
    /\ UNCHANGED <<fs, collectionFile, indexedPaths, vocabFile, indexFile, nonRepoVars>>

\* index::invoke_par as one step, every read succeeding: it builds its
\* own Collection from the directory, which it does not write, and
\* writes the vocabulary and index files. indexedPaths keeps the path
\* each DocumentId of the run stood for. (A run with a failing read
\* writes nothing.)
RepoIndex ==
    /\ LET run == InvokePar(fs)
           collection == FromPaths(EmptyMap, fs, DirList(fs))
       IN  /\ vocabFile' = [written |-> TRUE, vocabulary |-> run.vocabulary]
           /\ indexFile' = [written |-> TRUE, index |-> run.index]
           /\ indexedPaths' = [d \in {collection[p].document_id : p \in DOMAIN collection} |->
                                  CHOOSE p \in DOMAIN collection : collection[p].document_id = d]
    /\ statusReport' = NoStatus
    /\ repoSearch' = NoRepoSearch
    /\ UNCHANGED <<fs, collectionFile, nonRepoVars>>

\* InvertedCollection::get_path(doc_id) : the path, or none.
NoPath == 0
GetPath(inv, doc_id) == IF doc_id \in DOMAIN inv THEN inv[doc_id] ELSE NoPath

\* search::invoke on the persisted index and Collection files (without
\* either, from_file fails and invoke returns the error): the top_n
\* results are resolved to paths with get_path(doc_id).unwrap(), which
\* panics on none.
RepoSearch(text, top_n) ==
    /\ indexFile.written
    /\ collectionFile.written
    /\ LET t == Tokenize(DefaultTokenizerVocabulary, text)
           query == QueryFrom(t.tokens)
           inner == ScoreQuery(EmptyMap, indexFile.index, query, DOMAIN query)
           top_n_results == GetTopNOf(inner, SortedSeq(DOMAIN inner), top_n)
       IN  \E inv_collection \in InvertedCollections(collectionFile.index) :
               repoSearch' =
                   [done |-> TRUE,
                    doc_ids |-> [i \in DOMAIN top_n_results |-> top_n_results[i].doc_id],
                    paths |-> [i \in DOMAIN top_n_results |->
                                  GetPath(inv_collection, top_n_results[i].doc_id)]]
    /\ statusReport' = NoStatus
    /\ UNCHANGED <<fs, collectionFile, indexedPaths, vocabFile, indexFile, nonRepoVars>>

RepoInit ==
    /\ fs \in [Paths -> {0, 1}]
    /\ collectionFile = [written |-> FALSE, index |-> EmptyMap]
    /\ indexedPaths = EmptyMap
    /\ statusReport = NoStatus
    /\ repoSearch = NoRepoSearch

RepoNext ==
    \/ \E path \in Paths : RepoAddFile(path)
    \/ \E path \in Paths : RepoRemoveFile(path)
    \/ CollectionIndex
    \/ StatusInvoke
    \/ RepoIndex
    \/ \E text \in QueryTexts, top_n \in {1, Cardinality(Paths)} : RepoSearch(text, top_n)

\* C23: a status pass that finds added or removed paths puts the added
\* paths into the Collection, takes the removed ones out and writes the
\* Collection file, so the file then holds exactly the paths of the
\* directory and a second status pass over the unchanged directory
\* reports no added and no removed path.
C23_StatusUpdatesCollection ==
    statusReport.done =>
        /\ DOMAIN collectionFile.index = LivePaths(fs)
        /\ statusReport.second => statusReport.new = {} /\ statusReport.removed = {}

\* C27: whatever index-collection runs, additions and removals of files,
\* index runs and search runs came before, every DocumentId of the
\* persisted index resolves through the persisted Collection file to the
\* path whose content was indexed under it, and so does every result of
\* a search: never to no path, never to another path.
C27_DocumentIdsResolveToIndexedPaths ==
    /\ (indexFile.written /\ collectionFile.written) =>
           \A inv \in InvertedCollections(collectionFile.index) :
               \A d \in DOMAIN indexFile.index.doc_terms_counter :
                   GetPath(inv, d) = indexedPaths[d]
    /\ repoSearch.done =>
           \A i \in DOMAIN repoSearch.doc_ids :
               repoSearch.paths[i] = indexedPaths[repoSearch.doc_ids[i]]

\* ---------------------------------------------------------------------
\* The pipeline's result against the run in path order
\* ---------------------------------------------------------------------

\* The DocumentIds in the loader's path order.
PathOrderIds ==
    LET list == DirList(fs) IN [i \in DOMAIN list |-> index[list[i]].document_id]

C28_LoaderErrorWritesNothing ==
    pcLoader = "err" =>
        /\ ~vocabFile.written
        /\ ~indexFile.written
        /\ pcMain \notin {"write_vocab", "write_index", "ok"}

\* C28 witness: invoke_par has returned the loader's error after two
\* documents were tokenized and folded in memory; no file is written.
C28_Witness ==
    /\ pcMain = "err"
    /\ pcLoader = "err"
    /\ Len(foldOrder) = 2
    /\ vocabulary # EmptyMap
    /\ ~vocabFile.written
    /\ ~indexFile.written

\* =====================================================================
\* Specifications
\* =====================================================================

\* The Collection before any directory exists.
ColIdle ==
    /\ index = EmptyMap
    /\ fs = [p \in Paths |-> 0]
    /\ lastInsert = {}
    /\ freed = {}

\* The components modelled on their own, before they run.
TokzIdle ==
    /\ tokText = <<>>
    /\ tokOut = NoTokens

CvIdle ==
    /\ sharedVocab = EmptyMap
    /\ vocabMutex = {}
    /\ pcWorker = [p \in Paths |-> "idle"]
    /\ workerTokens = [p \in Paths |-> <<>>]

AuxIdle == EncInit /\ TokzIdle /\ CvIdle /\ ScoreInit /\ ExtIdle

\* The Collection with its directory; the other components stay idle.
InitCol == ColInit /\ IdxInit /\ PipeIdle /\ AuxIdle
SpecCol == InitCol /\ [][ColNext]_vars

\* The folds of a FrequencyIndex; the other components stay idle.
InitIdx == IdxInit /\ ColIdle /\ PipeIdle /\ AuxIdle
SpecIdx == InitIdx /\ [][IdxNext]_vars

\* One run of invoke_par, followed by a search.
SpecPipe == PipeInit /\ [][PipeNext]_vars

\* The same under the scheduler's fairness: each of the four threads that
\* can take a step eventually takes one.
LiveSpecPipe ==
    /\ PipeInit
    /\ [][PipeNext]_vars
    /\ WF_vars(LoaderNext)
    /\ WF_vars(TokNext)
    /\ WF_vars(IdxrNext)
    /\ WF_vars(MainNext)

\* Encoder::encode calls on one Encoder; the other components stay idle.
InitEnc == EncInit /\ TokzIdle /\ CvIdle /\ ScoreInit /\ ColIdle /\ IdxInit /\ PipeIdle /\ ExtIdle
SpecEnc == InitEnc /\ [][EncNext]_vars

\* One tokenize call on a new Tokenizer; the other components stay idle.
InitTokz == TokzInit /\ EncInit /\ CvIdle /\ ScoreInit /\ ColIdle /\ IdxInit /\ PipeIdle /\ ExtIdle
SpecTokz == InitTokz /\ [][TokzNext]_vars

\* One run of create_vocabulary; the other components stay idle.
InitCv == CvInit /\ EncInit /\ TokzIdle /\ ScoreInit /\ IdxInit /\ PipeIdle /\ ExtIdle
SpecCv == InitCv /\ [][CvNext]_vars

\* add_score and get_top_n calls on one DocumentsScores; the other
\* components stay idle.
InitScore == ScoreInit /\ EncInit /\ TokzIdle /\ CvIdle /\ ColIdle /\ IdxInit /\ PipeIdle /\ ExtIdle
SpecScore == InitScore /\ [][ScoreNext]_vars

\* calc_idf calls with one n; the other components stay idle.
InitIdf ==
    /\ IdfInit /\ FplIdle /\ RepoIdle /\ SeqIdle /\ MergeIdle /\ BlocksIdle
    /\ EncInit /\ TokzIdle /\ CvIdle /\ ScoreInit /\ ColIdle /\ IdxInit /\ PipeIdle
SpecIdf == InitIdf /\ [][IdfNext]_vars

\* The commands of the repository in any order, on a directory that
\* changes between them; the other components stay idle.
InitRepo ==
    /\ RepoInit /\ IdfIdle /\ FplIdle /\ SeqIdle /\ MergeIdle /\ BlocksIdle
    /\ index = EmptyMap /\ lastInsert = {} /\ freed = {}
    /\ EncInit /\ TokzIdle /\ CvIdle /\ ScoreInit /\ IdxInit /\ PipeIdle
SpecRepo == InitRepo /\ [][RepoNext]_vars

\* add and remove calls on one FrequencyPostingsList; the other
\* components stay idle.
InitFpl ==
    /\ FplInit /\ IdfIdle /\ RepoIdle /\ SeqIdle /\ MergeIdle /\ BlocksIdle
    /\ EncInit /\ TokzIdle /\ CvIdle /\ ScoreInit /\ ColIdle /\ IdxInit /\ PipeIdle
SpecFpl == InitFpl /\ [][FplNext]_vars

\* One run of invoke and one run of invoke_par on the same directory.
SpecBoth == PipeInit /\ [][BothNext]_vars

\* One call of merge_postings on sorted inputs; the other components
\* stay idle. The call is one thread that keeps running.
InitMerge ==
    /\ MergeInit /\ IdfIdle /\ FplIdle /\ RepoIdle /\ SeqIdle /\ BlocksIdle
    /\ EncInit /\ TokzIdle /\ CvIdle /\ ScoreInit /\ ColIdle /\ IdxInit /\ PipeIdle
LiveSpecMerge == InitMerge /\ [][MergeNext]_vars /\ WF_vars(MergeNext)

\* One call of from_entries; the other components stay idle. The call
\* is one thread that keeps running.
InitBlocks ==
    /\ BlocksInit /\ IdfIdle /\ FplIdle /\ RepoIdle /\ SeqIdle /\ MergeIdle
    /\ EncInit /\ TokzIdle /\ CvIdle /\ ScoreInit /\ ColIdle /\ IdxInit /\ PipeIdle
LiveSpecBlocks == InitBlocks /\ [][BlocksNext]_vars /\ WF_vars(BlocksNext)

====
